---- MODULE Spec2Model ----
(***************************************************************************)
(* Call session manager of src/store.tsx (AppProvider): signaling router,  *)
(* peer connections, candidate buffering, call membership, media toggles   *)
(* and missed-call recording.                                              *)
(*                                                                         *)
(* One record per client holds the AppProvider state of that user (React   *)
(* state and refs, under the names the source gives them).  The shared     *)
(* store (notifications, messages, calls) and the wall clock are global. An *)
(* async function is a task: a record that remembers where the function    *)
(* is suspended (its pending await) and the values it captured.  One       *)
(* action runs the code between two awaits.                                *)
(***************************************************************************)
EXTENDS Integers, Sequences, FiniteSets, TLC

VARIABLES
    client,         \* [user -> AppProvider state of that user]
    notifications,  \* store table `notifications`: sequence of rows
    messages,       \* store table `messages`: rows of type missed_call
    clock,          \* Date.now()
    storeUp,        \* whether store requests currently succeed
    calls,          \* store table `calls`: how it is set up, and its rows
    channel,        \* channel[s][r]: signals s transmitted that r has yet to receive
    heard,          \* heard[r][s]: candidates of s handed to r by the environment
    clients         \* the users whose AppProvider runs in this scenario

vars == <<client, notifications, messages, clock, storeUp, calls, channel, heard, clients>>

\* ---------------------------------------------------------------- bounds
MaxClock == 10001       \* last value of the clock
MaxConn == 3            \* RTCPeerConnections one client holds at a time
MaxCand == 2            \* candidates one sender emits
MaxCalls == 1           \* startGroupCall invocations per client
MaxRecordings == 2      \* startGroupCall invocations where calls are repeated
MaxTasks == 2           \* handlers and user actions one client has suspended at a time
MaxWire == 5            \* signals queued for one receiver
MaxBurst == 3           \* candidates one sender emits where a flush is interrupted

\* ------------------------------------------------------------- constants
DedupWindow == 10000

Users == {"A", "B", "C", "D"}
NoUser == "none"
Kinds == {"audio", "video"}
TickSteps == {DedupWindow \div 2}

\* The callId of an inbound OFFER: absent (0), some other call, or the
\* receiver's own active call.
NoCallId == 0
OtherCallId == 0 - 1

RECURSIVE SeqToSet(_)
SeqToSet(q) == IF q = <<>> THEN {} ELSE {Head(q)} \cup SeqToSet(Tail(q))

RECURSIVE Filter(_, _)
\* q.filter(id => id \notin drop)
Filter(q, drop) ==
    IF q = <<>> THEN <<>>
    ELSE IF Head(q) \in drop THEN Filter(Tail(q), drop)
         ELSE <<Head(q)>> \o Filter(Tail(q), drop)

Includes(q, x) == \E i \in 1..Len(q) : q[i] = x

\* --------------------------------------------------------------- records
NoIncomingCall == [callerId |-> NoUser, callId |-> NoCallId, offer |-> FALSE]
NoCallData == [active |-> FALSE, invitedIds |-> <<>>, joinedIds |-> <<>>]

Signal(type, sender, recipient, callId, sdp, candidate) ==
    [type |-> type, senderId |-> sender, recipientId |-> recipient,
     callId |-> callId, sdp |-> sdp, candidate |-> candidate]

\* The `calls` table of a store that was never given one.  `mode` tells how
\* the store answers requests on the table: "absent" (no such table), "open",
\* "readonly" (select allowed, writes refused with 42501) or "restricted"
\* (every request refused with 42501).
CallsModes == {"absent", "open", "readonly", "restricted"}
NoCalls == [mode |-> "absent", rows |-> <<>>]

NoSignal == Signal("none", NoUser, NoUser, NoCallId, FALSE, 0)

\* new RTCPeerConnection(RTC_CONFIG)
NewPC(remote) ==
    [remote |-> remote, closed |-> FALSE, signalingState |-> "stable",
     hasRemoteDescription |-> FALSE, hasLocalDescription |-> FALSE,
     applied |-> <<>>, early |-> <<>>, senders |-> {}, gathered |-> 0]

NewTask(op, at) ==
    [op |-> op, at |-> at, peer |-> NoUser, conn |-> 0, callId |-> NoCallId,
     todo |-> <<>>, invited |-> <<>>, joined |-> <<>>, t0 |-> 0,
     seen |-> {}, kind |-> "none", flag |-> FALSE, done |-> <<>>,
     queued |-> <<>>]

InitClient(u) ==
    [id |-> u,
     incomingCall |-> NoIncomingCall,
     isInCall |-> FALSE,
     activeCallData |-> NoCallData,
     activeCallId |-> NoCallId,
     localStream |-> {},
     endedTracks |-> {},
     isMicOn |-> FALSE,
     isCameraOn |-> FALSE,
     isScreenSharing |-> FALSE,
     pcs |-> <<>>,
     peerConnections |-> [r \in Users |-> 0],
     pendingRemoteCandidates |-> [r \in Users |-> <<>>],
     pendingSignals |-> <<>>,
     isSignalingSubscribed |-> TRUE,
     sendOk |-> TRUE,
     hasCallsTable |-> "null",
     callsRestricted |-> FALSE,
     in |-> NoSignal,
     out |-> <<>>,
     tasks |-> <<>>,
     callsStarted |-> 0]

\* ------------------------------------------------------ media engine
\* pc.setRemoteDescription(desc) is accepted in these signaling states; an
\* offer that meets a pending local offer is rolled back by some runtimes
\* and rejected by others (rollback is the caller's choice of outcome).
CanSetRemoteDescription(pc, type, rollback) ==
    /\ ~pc.closed
    /\ type = "offer" =>
         \/ pc.signalingState \in {"stable", "have-remote-offer"}
         \/ pc.signalingState = "have-local-offer" /\ rollback
    /\ type = "answer" => pc.signalingState = "have-local-offer"

setRemoteDescription(pc, type) ==
    [pc EXCEPT !.hasRemoteDescription = TRUE,
               !.signalingState =
                   IF type = "offer" THEN "have-remote-offer" ELSE "stable"]

\* pc.addIceCandidate(c): rejected on a closed connection and on one with no
\* remote description (InvalidStateError); every caller catches the error.
addIceCandidate(pc, c) ==
    IF pc.closed THEN pc
    ELSE IF ~pc.hasRemoteDescription THEN [pc EXCEPT !.early = Append(@, c)]
    ELSE [pc EXCEPT !.applied = Append(@, c)]

\* createOffer() followed by setLocalDescription(offer)
CanCreateOffer(pc) ==
    ~pc.closed /\ pc.signalingState \in {"stable", "have-local-offer"}

createOffer(pc) ==
    [pc EXCEPT !.signalingState = "have-local-offer",
               !.hasLocalDescription = TRUE]

\* createAnswer() followed by setLocalDescription(answer)
CanCreateAnswer(pc) == ~pc.closed /\ pc.signalingState = "have-remote-offer"

createAnswer(pc) ==
    [pc EXCEPT !.signalingState = "stable", !.hasLocalDescription = TRUE]

\* ------------------------------------------------------ client helpers
\* sendSignal: transmit when the channel is subscribed, queue otherwise and
\* when channel.send throws (`sendOk` tells whether the transport takes a
\* signal right now).  `out` holds what the running step transmitted.
sendSignal(s, type, recipient, callId, sdp, candidate) ==
    LET m == Signal(type, s.id, recipient, callId, sdp, candidate) IN
    IF s.isSignalingSubscribed /\ s.sendOk
    THEN [s EXCEPT !.out = Append(@, m)]
    ELSE [s EXCEPT !.pendingSignals = Append(@, m)]

RECURSIVE sendHangups(_, _)
\* invited.forEach(pid => sendSignal('HANGUP', pid, {}))
sendHangups(s, invited) ==
    IF invited = <<>> THEN s
    ELSE sendHangups(sendSignal(s, "HANGUP", Head(invited), NoCallId, FALSE, 0),
                     Tail(invited))

\* A closed connection that nothing references any more (garbage).
Collected == [NewPC(NoUser) EXCEPT !.closed = TRUE]

FreeSlot(s) ==
    IF \E k \in 1..Len(s.pcs) : s.pcs[k] = Collected
    THEN CHOOSE k \in 1..Len(s.pcs) :
            s.pcs[k] = Collected /\ \A j \in 1..(k - 1) : s.pcs[j] # Collected
    ELSE Len(s.pcs) + 1

\* createPeerConnection(recipientId): the new connection takes the map entry
\* of recipientId; a connection already stored there is neither closed nor
\* kept.  `tracks` are the local tracks the caller attaches right after.
createPeerConnection(s, recipientId, tracks) ==
    LET k == FreeSlot(s)
        pc == [NewPC(recipientId) EXCEPT !.senders = tracks]
    IN  [s EXCEPT !.pcs = IF k > Len(s.pcs) THEN Append(@, pc)
                          ELSE [@ EXCEPT ![k] = pc],
                  !.peerConnections[recipientId] = k]

\* peerConnectionsRef.current.forEach(pc => pc.close())
CloseAll(s) ==
    [k \in 1..Len(s.pcs) |->
        IF \E r \in Users : s.peerConnections[r] = k
        THEN [s.pcs[k] EXCEPT !.closed = TRUE] ELSE s.pcs[k]]

\* Variant: a cleanup that forgets setActiveCallId(null).
cleanupCallKeepsCallId(s) ==
    [s EXCEPT !.pcs = CloseAll(s),
              !.peerConnections = [r \in Users |-> 0],
              !.localStream = {},
              !.endedTracks = {},
              !.isInCall = FALSE,
              !.activeCallData = NoCallData,
              !.isScreenSharing = FALSE,
              !.isMicOn = FALSE,
              !.isCameraOn = FALSE]

cleanupCall(s) ==
    [s EXCEPT !.pcs = CloseAll(s),
              !.peerConnections = [r \in Users |-> 0],
              !.localStream = {},
              !.endedTracks = {},
              !.isInCall = FALSE,
              !.activeCallData = NoCallData,
              !.activeCallId = NoCallId,
              !.isScreenSharing = FALSE,
              !.isMicOn = FALSE,
              !.isCameraOn = FALSE]

handleRemoteHangup(s, senderId) ==
    LET k == s.peerConnections[senderId]
        s1 == IF k # 0
              THEN [s EXCEPT !.pcs[k].closed = TRUE,
                             !.peerConnections[senderId] = 0]
              ELSE s
        newJoined == Filter(s1.activeCallData.joinedIds, {senderId})
    IN  IF ~s1.activeCallData.active THEN s1
        ELSE IF newJoined = <<>> THEN cleanupCall(s1)
        ELSE [s1 EXCEPT !.activeCallData.joinedIds = newJoined]

\* setActiveCallData(prev => prev.joinedIds.includes(id) ? prev : {...prev, joinedIds: [...prev.joinedIds, id]})
addJoined(s, id) ==
    IF ~s.activeCallData.active \/ Includes(s.activeCallData.joinedIds, id)
    THEN s
    ELSE [s EXCEPT !.activeCallData.joinedIds = Append(@, id)]

\* ------------------------------------------------------------- tasks
RemoveAt(q, i) == SubSeq(q, 1, i - 1) \o SubSeq(q, i + 1, Len(q))

Spawn(s, t) == [s EXCEPT !.tasks = Append(@, t)]
Finish(s, i) == [s EXCEPT !.tasks = RemoveAt(@, i)]
Suspend(s, i, t) == [s EXCEPT !.tasks[i] = t]

\* The model's bounds on one client.  The callbacks of startGroupCall are
\* bounded by the calls started and the ids invited.
Fits(s) ==
    /\ Cardinality({i \in 1..Len(s.tasks) : s.tasks[i].op # "call"}) <= MaxTasks
    /\ Len(s.pcs) <= MaxConn
    /\ Len(s.pendingSignals) <= MaxWire

\* ------------------------------------------------- outbound signal queue
\* Variant: a flush that reads the queue and leaves its entries in place.
onSubscribedKeepsQueue(s) ==
    LET queued == s.pendingSignals
        s1 == [s EXCEPT !.isSignalingSubscribed = TRUE]
        s2 == IF queued = <<>> THEN s1
              ELSE Spawn([s1 EXCEPT !.out = IF s.sendOk THEN Append(@, Head(queued)) ELSE @],
                         [NewTask("flush", "send") EXCEPT
                             !.queued = queued, !.flag = s.sendOk])
    IN  sendSignal(s2, "USER_ONLINE", NoUser, NoCallId, FALSE, 0)

\* The subscribe callback with status SUBSCRIBED: the queue is emptied into
\* `queued`, the flush sends its first entry and waits, and USER_ONLINE is
\* handed to sendSignal.  The head of `queued` is the entry whose send is
\* awaited; `flag` tells whether that send succeeds.
onSubscribed(s) ==
    LET queued == s.pendingSignals
        s1 == [s EXCEPT !.isSignalingSubscribed = TRUE, !.pendingSignals = <<>>]
        s2 == IF queued = <<>> THEN s1
              ELSE Spawn([s1 EXCEPT !.out = IF s.sendOk THEN Append(@, Head(queued)) ELSE @],
                         [NewTask("flush", "send") EXCEPT
                             !.queued = queued, !.flag = s.sendOk])
    IN  sendSignal(s2, "USER_ONLINE", NoUser, NoCallId, FALSE, 0)

\* The awaited send of the flush returns: a failure leaves the loop through
\* the catch, a success goes on to the next entry of `queued`.
AfterFlushSend(s, i) ==
    LET t == s.tasks[i]
        rest == Tail(t.queued)
    IN  IF ~t.flag \/ rest = <<>> THEN Finish(s, i)
        ELSE Suspend([s EXCEPT !.out = IF s.sendOk THEN Append(@, Head(rest)) ELSE @],
                     i, [t EXCEPT !.queued = rest, !.flag = s.sendOk])

\* pc.onicecandidate with candidate number n for the remote user of pc k.
onicecandidate(s, k, n) ==
    sendSignal([s EXCEPT !.pcs[k].gathered = n],
               "CANDIDATE", s.pcs[k].remote, NoCallId, FALSE, n)

\* ------------------------------------------- negotiation (OFFER, ANSWER, accept)
\* What follows the flush of buffered candidates in the three places that
\* set a remote description.
AfterFlush(s, i) ==
    LET t == s.tasks[i] IN
    IF t.op = "ANSWER" THEN Finish(addJoined(s, t.peer), i)
    ELSE Suspend(s, i, [t EXCEPT !.at = "answer"])

\* await pc.setRemoteDescription(...) returns: on success the buffered
\* candidates of the sender are flushed, one await per candidate.
AfterSetRemoteDescription(s, i, rollback) ==
    LET t == s.tasks[i]
        pc == s.pcs[t.conn]
        type == IF t.op = "ANSWER" THEN "answer" ELSE "offer"
        pending == s.pendingRemoteCandidates[t.peer]
        s1 == [s EXCEPT !.pcs[t.conn] = setRemoteDescription(pc, type)]
    IN  IF ~CanSetRemoteDescription(pc, type, rollback) THEN Finish(s, i)
        ELSE IF pending = <<>> THEN AfterFlush(s1, i)
        ELSE Suspend([s1 EXCEPT !.pcs[t.conn] = addIceCandidate(@, Head(pending))],
                     i, [t EXCEPT !.at = "flush", !.todo = Tail(pending)])

\* await pc.addIceCandidate(c) returns inside the flush loop.
AfterFlushedCandidate(s, i) ==
    LET t == s.tasks[i] IN
    IF t.todo # <<>>
    THEN Suspend([s EXCEPT !.pcs[t.conn] = addIceCandidate(@, Head(t.todo))],
                 i, [t EXCEPT !.todo = Tail(@)])
    ELSE AfterFlush([s EXCEPT !.pendingRemoteCandidates[t.peer] = <<>>], i)

\* await pc.createAnswer(); await pc.setLocalDescription(answer) return.
\* Variant: an accept that records the caller as invited but not as joined.
AfterCreateAnswerNotJoined(s, i) ==
    LET t == s.tasks[i]
        pc == s.pcs[t.conn]
        s1 == sendSignal([s EXCEPT !.pcs[t.conn] = createAnswer(pc)],
                         "ANSWER", t.peer, t.callId, TRUE, 0)
    IN  IF ~CanCreateAnswer(pc) THEN Finish(s, i)
        ELSE IF t.op = "OFFER" THEN Finish(s1, i)
        ELSE Finish([s1 EXCEPT !.isInCall = TRUE,
                               !.activeCallId = t.callId,
                               !.activeCallData = [active |-> TRUE,
                                                   invitedIds |-> <<t.peer>>,
                                                   joinedIds |-> <<>>],
                               !.incomingCall = NoIncomingCall], i)

AfterCreateAnswer(s, i) ==
    LET t == s.tasks[i]
        pc == s.pcs[t.conn]
        s1 == sendSignal([s EXCEPT !.pcs[t.conn] = createAnswer(pc)],
                         "ANSWER", t.peer, t.callId, TRUE, 0)
    IN  IF ~CanCreateAnswer(pc) THEN Finish(s, i)
        ELSE IF t.op = "OFFER" THEN Finish(s1, i)
        ELSE Finish([s1 EXCEPT !.isInCall = TRUE,
                               !.activeCallId = t.callId,
                               !.activeCallData = [active |-> TRUE,
                                                   invitedIds |-> <<t.peer>>,
                                                   joinedIds |-> <<t.peer>>],
                               !.incomingCall = NoIncomingCall], i)

\* await pc.createOffer(); await pc.setLocalDescription(offer) return.
AfterCreateOffer(s, i) ==
    LET t == s.tasks[i]
        pc == s.pcs[t.conn]
    IN  IF ~CanCreateOffer(pc) THEN Finish(s, i)
        ELSE Finish(sendSignal([s EXCEPT !.pcs[t.conn] = createOffer(pc)],
                               "OFFER", t.peer, t.callId, TRUE, 0), i)

\* --------------------------------------------------------- signal router
\* Variant: the router of src/unnamed/part_001, busy whenever a call is active.
HandleOfferAlwaysBusy(s, m) ==
    IF s.isInCall THEN s
    ELSE [s EXCEPT !.incomingCall = [callerId |-> m.senderId,
                                     callId |-> m.callId,
                                     offer |-> m.sdp]]

\* Variant: a router without the busy check, staging every OFFER of another call.
HandleOfferNeverBusy(s, m) ==
    IF s.isInCall /\ m.callId # NoCallId /\ m.callId = s.activeCallId /\ m.sdp
    THEN LET s1 == IF s.peerConnections[m.senderId] = 0
                   THEN createPeerConnection(s, m.senderId, s.localStream)
                   ELSE s
         IN  Spawn(s1, [NewTask("OFFER", "rd") EXCEPT
                           !.peer = m.senderId,
                           !.conn = s1.peerConnections[m.senderId],
                           !.callId = m.callId])
    ELSE [s EXCEPT !.incomingCall = [callerId |-> m.senderId,
                                     callId |-> m.callId,
                                     offer |-> m.sdp]]

HandleOffer(s, m) ==
    LET senderId == m.senderId
        incomingCallId == m.callId
        busy == s.isInCall /\ incomingCallId # NoCallId /\ s.activeCallId # NoCallId
        s1 == IF s.peerConnections[senderId] = 0
              THEN createPeerConnection(s, senderId, s.localStream)
              ELSE s
    IN  IF busy /\ incomingCallId # s.activeCallId THEN s
        ELSE IF busy /\ incomingCallId = s.activeCallId
        THEN IF m.sdp
             THEN Spawn(s1, [NewTask("OFFER", "rd") EXCEPT
                                !.peer = senderId,
                                !.conn = s1.peerConnections[senderId],
                                !.callId = incomingCallId])
             ELSE s1
        ELSE [s EXCEPT !.incomingCall = [callerId |-> senderId,
                                         callId |-> incomingCallId,
                                         offer |-> m.sdp]]

HandleAnswer(s, m) ==
    IF s.peerConnections[m.senderId] # 0
    THEN Spawn(s, [NewTask("ANSWER", "rd") EXCEPT
                      !.peer = m.senderId,
                      !.conn = s.peerConnections[m.senderId]])
    ELSE s

HandleCandidate(s, m) ==
    LET k == s.peerConnections[m.senderId] IN
    IF k # 0 /\ m.candidate # 0
    THEN [s EXCEPT !.pcs[k] = addIceCandidate(@, m.candidate)]
    ELSE IF m.candidate # 0
    THEN [s EXCEPT !.pendingRemoteCandidates[m.senderId] = Append(@, m.candidate)]
    ELSE s

HandleHangup(s, m, now) ==
    IF s.incomingCall.callerId = m.senderId
    THEN Spawn(s, [NewTask("HANGUP", "q1") EXCEPT !.peer = m.senderId, !.t0 = now])
    ELSE handleRemoteHangup(s, m.senderId)

\* Variant: a router without the filter on the sender.
OnSignalHearsItself(s0, m, now) ==
    LET s == [s0 EXCEPT !.in = m] IN
    IF m.recipientId # NoUser /\ m.recipientId # s.id /\ m.type # "USER_ONLINE"
    THEN s
    ELSE CASE m.type = "OFFER" -> HandleOffer(s, m)
           [] m.type = "ANSWER" -> HandleAnswer(s, m)
           [] m.type = "CANDIDATE" -> HandleCandidate(s, m)
           [] m.type = "HANGUP" -> HandleHangup(s, m, now)
           [] OTHER -> s

OnSignal(s0, m, now) ==
    LET s == [s0 EXCEPT !.in = m] IN
    IF m.recipientId # NoUser /\ m.recipientId # s.id /\ m.type # "USER_ONLINE"
    THEN s
    ELSE IF m.senderId = s.id THEN s
    ELSE CASE m.type = "OFFER" -> HandleOffer(s, m)
           [] m.type = "ANSWER" -> HandleAnswer(s, m)
           [] m.type = "CANDIDATE" -> HandleCandidate(s, m)
           [] m.type = "HANGUP" -> HandleHangup(s, m, now)
           [] OTHER -> s

\* ------------------------------------------------------------ call records
\* The outcome of a request on the `calls` table: "ok", "42501" (refused by
\* row-level security) or "error" (anything else: no such table, network).
StoreResult(mode, up, write) ==
    IF ~up THEN "error"
    ELSE CASE mode = "absent" -> "error"
           [] mode = "restricted" -> "42501"
           [] mode = "readonly" -> IF write THEN "42501" ELSE "ok"
           [] OTHER -> "ok"

\* The probe `supabase.from('calls').select('id').limit(1)` returned.
probeCallsTable(s, result) ==
    IF result = "42501"
    THEN [s EXCEPT !.callsRestricted = TRUE, !.hasCallsTable = "true"]
    ELSE IF result = "error" THEN [s EXCEPT !.hasCallsTable = "false"]
    ELSE [s EXCEPT !.hasCallsTable = "true"]

\* The row startGroupCall inserts.
CallRow(callId, recipientIds, now) ==
    [id |-> callId, status |-> "busy", started_at |-> now, ended_at |-> 0,
     invited_ids |-> recipientIds, joined_ids |-> <<>>]

\* Variant: an update that marks the call ended and leaves joined_ids alone.
EndedRowsKeepJoined(rows, callId, now, joined) ==
    [j \in 1..Len(rows) |->
        IF rows[j].id = callId
        THEN [rows[j] EXCEPT !.status = "completed", !.ended_at = now]
        ELSE rows[j]]

\* .update({ended_at, status: 'completed', joined_ids: joined}).eq('id', activeCallId)
EndedRows(rows, callId, now, joined) ==
    [j \in 1..Len(rows) |->
        IF rows[j].id = callId
        THEN [rows[j] EXCEPT !.status = "completed", !.ended_at = now,
                             !.joined_ids = joined]
        ELSE rows[j]]

\* Variant: a guard that does not look at callsRestrictedRef.
CallWriteDueUnchecked(s, hasCallsTable, callId) ==
    hasCallsTable /\ callId # NoCallId

\* `if (hasCallsTable && activeCallId) { if (callsRestrictedRef.current) skip else write }`;
\* hasCallsTable is the value of the render in which the function was made.
CallWriteDue(s, hasCallsTable, callId) ==
    hasCallsTable /\ callId # NoCallId /\ ~s.callsRestricted

\* The awaited insert of startGroupCall returned.
AfterCallInsert(s, i, result) ==
    Finish(IF result = "42501" THEN [s EXCEPT !.callsRestricted = TRUE] ELSE s, i)

\* Variant: an endCall that gives up when the update of the call record fails.
AfterCallUpdateAborts(s, i, result) ==
    IF result # "ok" THEN Finish(s, i)
    ELSE cleanupCall(sendHangups(Finish(s, i), s.tasks[i].invited))

\* The awaited update of endCall returned: HANGUP goes to every invited id
\* and the call is cleaned up.
AfterCallUpdate(s, i, result) ==
    LET s1 == IF result = "42501" THEN [s EXCEPT !.callsRestricted = TRUE] ELSE s
    IN  cleanupCall(sendHangups(Finish(s1, i), s.tasks[i].invited))

\* ---------------------------------------------------------- call actions
RECURSIVE startOffers(_, _, _)
\* recipientIds.forEach(async recipientId => { createPeerConnection; addTrack; await createOffer ... })
startOffers(s, recipientIds, callId) ==
    IF recipientIds = <<>> THEN s
    ELSE LET r == Head(recipientIds)
             s1 == createPeerConnection(s, r, s.localStream)
         IN  startOffers(Spawn(s1, [NewTask("call", "offer") EXCEPT
                                       !.peer = r,
                                       !.conn = s1.peerConnections[r],
                                       !.callId = callId]),
                         Tail(recipientIds), callId)

\* The call record is inserted by a function that is not awaited; it runs up
\* to its await before the offers are prepared.
startGroupCall(s, recipientIds, now) ==
    LET s1 == [s EXCEPT !.isInCall = TRUE,
                        !.activeCallId = now,
                        !.activeCallData = [active |-> TRUE,
                                            invitedIds |-> recipientIds,
                                            joinedIds |-> <<>>],
                        !.callsStarted = @ + 1]
        s2 == IF CallWriteDue(s, s.hasCallsTable = "true", now)
              THEN Spawn(s1, [NewTask("callRecord", "insert") EXCEPT
                                 !.callId = now, !.invited = recipientIds, !.t0 = now])
              ELSE s1
    IN  IF recipientIds = <<>> THEN s
        ELSE startOffers(s2, recipientIds, now)

\* addToCall up to the await of createOffer in initiateCallConnection; the
\* callId of the offer is the activeCallId of the render that made the call.
addToCall(s, recipientId) ==
    LET s1 == createPeerConnection(s, recipientId, s.localStream) IN
    IF ~s.isInCall \/ ~s.activeCallData.active THEN s
    ELSE Spawn(s1, [NewTask("addToCall", "offer") EXCEPT
                       !.peer = recipientId,
                       !.conn = s1.peerConnections[recipientId],
                       !.callId = s.activeCallId])

\* Variant: an addToCall that also records the recipient as joined.
AfterAddOfferJoins(s, i) ==
    LET t == s.tasks[i]
        pc == s.pcs[t.conn]
        s1 == IF CanCreateOffer(pc)
              THEN sendSignal([s EXCEPT !.pcs[t.conn] = createOffer(pc)],
                              "OFFER", t.peer, t.callId, TRUE, 0)
              ELSE s
    IN  Finish([s1 EXCEPT !.activeCallData =
                    IF @.active
                    THEN [@ EXCEPT !.invitedIds = Append(@, t.peer),
                                   !.joinedIds = Append(@, t.peer)]
                    ELSE @], i)

\* await pc.createOffer(); await pc.setLocalDescription(offer) return in
\* initiateCallConnection (an error is caught and logged there), then
\* addToCall appends the recipient to the invitedIds of the call data, if any.
AfterAddOffer(s, i) ==
    LET t == s.tasks[i]
        pc == s.pcs[t.conn]
        s1 == IF CanCreateOffer(pc)
              THEN sendSignal([s EXCEPT !.pcs[t.conn] = createOffer(pc)],
                              "OFFER", t.peer, t.callId, TRUE, 0)
              ELSE s
    IN  Finish([s1 EXCEPT !.activeCallData =
                    IF @.active THEN [@ EXCEPT !.invitedIds = Append(@, t.peer)]
                    ELSE @], i)

acceptIncomingCall(s) ==
    LET call == s.incomingCall
        s1 == createPeerConnection(s, call.callerId, {})
    IN  IF call.callerId = NoUser THEN s
        ELSE IF call.offer
        THEN Spawn(s1, [NewTask("accept", "rd") EXCEPT
                           !.peer = call.callerId,
                           !.conn = s1.peerConnections[call.callerId],
                           !.callId = call.callId])
        ELSE [s1 EXCEPT !.isInCall = TRUE,
                        !.activeCallId = call.callId,
                        !.activeCallData = [active |-> TRUE,
                                            invitedIds |-> <<call.callerId>>,
                                            joinedIds |-> <<call.callerId>>],
                        !.incomingCall = NoIncomingCall]

\* Variant: a reject that only dismisses the invite.
rejectIncomingCallSilently(s) ==
    IF s.incomingCall.callerId # NoUser
    THEN [s EXCEPT !.incomingCall = NoIncomingCall]
    ELSE s

rejectIncomingCall(s) ==
    IF s.incomingCall.callerId # NoUser
    THEN [sendSignal(s, "HANGUP", s.incomingCall.callerId, NoCallId, FALSE, 0)
            EXCEPT !.incomingCall = NoIncomingCall]
    ELSE s

\* ------------------------------------------------- missed-call recording
MissedCallRow(recipientId, senderId, timestamp) ==
    [recipient_id |-> recipientId, sender_id |-> senderId, timestamp |-> timestamp]

\* Variant: .gte('timestamp', ...) in place of .gt('timestamp', ...).
RecentMissedCallInclusive(table, recipientId, senderId, now) ==
    \E j \in 1..Len(table) :
        /\ table[j].recipient_id = recipientId
        /\ table[j].sender_id = senderId
        /\ table[j].timestamp >= now - DedupWindow

\* The dedup query: .eq(recipient_id).eq(sender_id).eq(type).gt('timestamp',
\* Date.now() - 10000).limit(1) returned a row.  `now` is the Date.now() of
\* the moment the query was built.
RecentMissedCall(table, recipientId, senderId, now) ==
    \E j \in 1..Len(table) :
        /\ table[j].recipient_id = recipientId
        /\ table[j].sender_id = senderId
        /\ table[j].timestamp > now - DedupWindow

\* Variant: endCall without the filter on joinedIds.
endCallEveryInvited(s, now) ==
    LET invited == s.activeCallData.invitedIds IN
    IF ~s.activeCallData.active THEN cleanupCall(s)
    ELSE IF invited = <<>> THEN cleanupCall(s)
    ELSE Spawn(s, [NewTask("endCall", "q1") EXCEPT
                      !.peer = Head(invited), !.todo = Tail(invited),
                      !.invited = invited, !.joined = s.activeCallData.joinedIds,
                      !.callId = s.activeCallId, !.t0 = now])

\* endCall up to its first await: the first dedup query when somebody did not
\* join, else the update of the call record when one is due, else none.
\* `flag` keeps the hasCallsTable of the render endCall was made in.
endCall(s, now) ==
    LET invited == s.activeCallData.invitedIds
        joined == s.activeCallData.joinedIds
        notJoined == Filter(invited, SeqToSet(joined))
        t == [NewTask("endCall", "update") EXCEPT
                 !.invited = invited, !.joined = joined,
                 !.callId = s.activeCallId, !.t0 = now,
                 !.flag = (s.hasCallsTable = "true")]
    IN  IF ~s.activeCallData.active THEN cleanupCall(s)
        ELSE IF notJoined # <<>>
        THEN Spawn(s, [t EXCEPT !.at = "q1", !.peer = Head(notJoined),
                                !.todo = Tail(notJoined)])
        ELSE IF CallWriteDue(s, t.flag, t.callId) THEN Spawn(s, t)
        ELSE cleanupCall(sendHangups(s, invited))

\* Variant: a HANGUP handler that forgets setIncomingCall(null).
AfterRecordingKeepsInvite(s, i, now) ==
    LET t == s.tasks[i] IN
    IF t.op = "HANGUP" THEN handleRemoteHangup(Finish(s, i), t.peer)
    ELSE IF t.todo # <<>>
    THEN Suspend(s, i, [t EXCEPT !.at = "q1", !.peer = Head(t.todo),
                                 !.todo = Tail(t.todo),
                                 !.done = Append(@, t.peer), !.t0 = now])
    ELSE cleanupCall(sendHangups(Finish(s, i), t.invited))

\* What follows the recording of one missed call: the HANGUP handler clears
\* the invite and forwards the hangup; endCall goes on to the next id that
\* did not join and, after the last, updates the call record when that is
\* due, else sends HANGUP to every invited id and cleans up.
AfterRecording(s, i, now) ==
    LET t == s.tasks[i] IN
    IF t.op = "HANGUP"
    THEN handleRemoteHangup([Finish(s, i) EXCEPT !.incomingCall = NoIncomingCall],
                            t.peer)
    ELSE IF t.todo # <<>>
    THEN Suspend(s, i, [t EXCEPT !.at = "q1", !.peer = Head(t.todo),
                                 !.todo = Tail(t.todo),
                                 !.done = Append(@, t.peer), !.t0 = now])
    ELSE IF CallWriteDue(s, t.flag, t.callId)
    THEN Suspend(s, i, [t EXCEPT !.at = "update", !.done = Append(@, t.peer),
                                 !.t0 = now])
    ELSE cleanupCall(sendHangups(Finish(s, i), t.invited))

\* ------------------------------------------------------- track toggles
Unvisited(s, t) == {r \in Users : s.peerConnections[r] # 0 /\ r \notin t.seen}

\* End of the loop over the peer connections.
ToggleDone(s, i) ==
    LET t == s.tasks[i] IN
    Finish(CASE t.op = "toggleMic" -> [s EXCEPT !.isMicOn = TRUE]
             [] t.op = "toggleCamera" ->
                  [s EXCEPT !.isCameraOn = t.flag, !.localStream = @ \cup {"video"}]
             [] OTHER -> [s EXCEPT !.isScreenSharing = TRUE], i)

\* One iteration of `for (const [recipientId, pc] of peerConnectionsRef.current.entries())`
\* up to its await: replaceTrack on an existing sender of the kind, else
\* addTrack and createOffer.
TogglePeer(s, i, r) ==
    LET t == s.tasks[i]
        k == s.peerConnections[r]
    IN  IF r = NoUser THEN ToggleDone(s, i)
        ELSE IF t.kind \in s.pcs[k].senders
        THEN Suspend(s, i, [t EXCEPT !.at = "replace", !.peer = r, !.conn = k,
                                     !.seen = @ \cup {r}])
        ELSE Suspend([s EXCEPT !.pcs[k].senders = @ \cup {t.kind}], i,
                     [t EXCEPT !.at = "offer", !.peer = r, !.conn = k,
                               !.seen = @ \cup {r}])

\* The awaited replaceTrack or createOffer/setLocalDescription of one
\* iteration returns.  toggleMic and toggleCamera catch a failure per peer;
\* toggleScreenShare leaves the loop at the first failure.
ToggleFailed(s, i) ==
    LET t == s.tasks[i]
        pc == s.pcs[t.conn]
    IN  \/ t.at = "replace" /\ pc.closed
        \/ t.at = "offer" /\ ~CanCreateOffer(pc)

ToggleResume(s, i) ==
    LET t == s.tasks[i]
        pc == s.pcs[t.conn]
    IN  IF t.at = "offer" /\ CanCreateOffer(pc)
        THEN sendSignal([s EXCEPT !.pcs[t.conn] = createOffer(pc)],
                        "OFFER", t.peer, t.callId, TRUE, 0)
        ELSE s

toggleMic(s) ==
    IF s.isMicOn THEN [s EXCEPT !.isMicOn = FALSE]
    ELSE IF "audio" \in s.localStream \ s.endedTracks
    THEN [s EXCEPT !.isMicOn = TRUE]
    ELSE Spawn([s EXCEPT !.localStream = @ \cup {"audio"},
                         !.endedTracks = @ \ {"audio"}],
               [NewTask("toggleMic", "start") EXCEPT
                   !.kind = "audio", !.callId = s.activeCallId])

toggleCamera(s) ==
    IF s.isScreenSharing THEN [s EXCEPT !.isCameraOn = ~s.isCameraOn]
    ELSE Spawn(IF s.isCameraOn THEN [s EXCEPT !.localStream = @ \cup {"video"}]
               ELSE s,
               [NewTask("toggleCamera", "start") EXCEPT
                   !.kind = "video", !.callId = s.activeCallId,
                   !.flag = ~s.isCameraOn])

\* revertToCamera: every video sender gets the camera track, or no track when
\* the camera is off (a sender without a track is no video sender any more).
revertToCamera(s) ==
    IF \A r \in Users : s.peerConnections[r] = 0 THEN s
    ELSE [s EXCEPT !.isScreenSharing = FALSE,
                   !.localStream = IF s.isCameraOn THEN @ \cup {"video"} ELSE @,
                   !.pcs = [k \in 1..Len(s.pcs) |->
                              IF ~s.isCameraOn /\ (\E r \in Users : s.peerConnections[r] = k)
                              THEN [s.pcs[k] EXCEPT !.senders = @ \ {"video"}]
                              ELSE s.pcs[k]]]

toggleScreenShare(s) ==
    IF s.isScreenSharing
    THEN revertToCamera([s EXCEPT !.localStream = @ \ {"video"}])
    ELSE Spawn([s EXCEPT !.localStream = @ \cup {"video"}],
               [NewTask("toggleScreenShare", "start") EXCEPT
                   !.kind = "video", !.callId = s.activeCallId])

\* ================================================================ actions
RECURSIVE Trim(_)
Trim(q) == IF q # <<>> /\ q[Len(q)] = Collected THEN Trim(SubSeq(q, 1, Len(q) - 1)) ELSE q

\* Closed connections that neither the registry nor a suspended function
\* references are garbage.
Collect(s) ==
    [s EXCEPT !.pcs = Trim([k \in 1..Len(s.pcs) |->
        IF s.pcs[k].closed /\ (\A i \in 1..Len(s.tasks) : s.tasks[i].conn # k)
        THEN Collected ELSE s.pcs[k]])]

\* The state a step of client u starts from: no signal received and nothing
\* handed to the channel yet.  `in` is the signal the step handles.
Cur(u) == [client[u] EXCEPT !.in = NoSignal, !.out = <<>>]

\* The step of client u ends in state s: what it transmitted is queued for
\* every other client, and the signal it handled (sent by `from`) is consumed.
Put(u, s, from) ==
    /\ Fits(s)
    /\ client' = [client EXCEPT ![u] = Collect(s)]
    /\ channel' = [a \in Users |-> [b \in Users |->
                     IF a = u /\ b \in clients \ {u} THEN channel[a][b] \o s.out
                     ELSE IF a = from /\ b = u THEN Tail(channel[a][b])
                     ELSE channel[a][b]]]
    /\ \A b \in Users : Len(channel'[u][b]) <= MaxWire

Tick ==
    /\ \E d \in TickSteps : clock + d <= MaxClock /\ clock' = clock + d
    /\ UNCHANGED <<client, notifications, messages, storeUp, calls, channel, heard, clients>>

\* The store starts or stops failing its requests.
StoreOutage ==
    /\ storeUp' = ~storeUp
    /\ UNCHANGED <<client, notifications, messages, clock, calls, channel, heard, clients>>

\* The signals of the given kinds that a user outside the scenario can send
\* to u.  An OFFER names another call or the receiver's active call;
\* "OFFER0" carries no callId and "OFFER-" no sdp.
Inbound(u, sender, kinds) ==
    {m \in
        {Signal("OFFER", sender, u, c, sdp, 0) :
            c \in {NoCallId, OtherCallId, client[u].activeCallId}, sdp \in BOOLEAN}
        \cup {Signal(type, sender, u, NoCallId, type = "ANSWER", 0) :
                type \in {"ANSWER", "HANGUP", "USER_ONLINE"}}
        \cup {Signal("CANDIDATE", sender, u, NoCallId, FALSE, heard[u][sender] + 1)} :
        /\ m.type # "OFFER" => m.type \in kinds
        /\ m.type = "OFFER" =>
             \/ "OFFER" \in kinds /\ m.callId # NoCallId /\ m.sdp
             \/ "OFFER0" \in kinds /\ m.callId = NoCallId /\ m.sdp
             \/ "OFFER-" \in kinds /\ m.callId # NoCallId /\ ~m.sdp}

\* channel.on('broadcast', {event: 'signal'}, ...) with a signal of a user
\* outside the scenario.
Inject(u, senders, kinds) ==
    /\ u \in clients
    /\ \E sender \in senders : \E m \in Inbound(u, sender, kinds) :
        /\ m.type = "CANDIDATE" => m.candidate <= MaxCand
        /\ Put(u, OnSignal(Cur(u), m, clock), NoUser)
        /\ heard' = IF m.type = "CANDIDATE"
                    THEN [heard EXCEPT ![u][sender] = m.candidate] ELSE heard
    /\ UNCHANGED <<notifications, messages, clock, storeUp, calls, clients>>

\* The same handler with the next signal another client transmitted.
Deliver(u) ==
    /\ u \in clients
    /\ \E sender \in clients \ {u} :
        /\ channel[sender][u] # <<>>
        /\ Put(u, OnSignal(Cur(u), Head(channel[sender][u]), clock), sender)
    /\ UNCHANGED <<notifications, messages, clock, storeUp, calls, heard, clients>>

\* The broadcast channel hands every client every signal: a client's own
\* signals, signals addressed to other users, presence announcements and
\* answers nobody waits for.
Stray(s, m) ==
    \/ m.senderId = s.id
    \/ m.recipientId \notin {NoUser, s.id} /\ m.type # "USER_ONLINE"
    \/ m.type = "USER_ONLINE"
    \/ m.type = "ANSWER" /\ s.peerConnections[m.senderId] = 0

Broadcast(u) ==
    /\ u \in clients
    /\ \E type \in {"OFFER", "ANSWER", "CANDIDATE", "HANGUP", "USER_ONLINE"} :
       \E sender \in {"A", "B", "C"} : \E recipient \in {"A", "B", NoUser} :
        LET m == Signal(type, sender, recipient, OtherCallId,
                        type \in {"OFFER", "ANSWER"},
                        IF type = "CANDIDATE" THEN 1 ELSE 0)
        IN  /\ Stray(client[u], m)
            /\ Put(u, OnSignal(Cur(u), m, clock), NoUser)
    /\ UNCHANGED <<notifications, messages, clock, storeUp, calls, heard, clients>>

\* The same handler with the next CANDIDATE of `sender`, who emits `max`.
Candidate(u, sender, max) ==
    /\ u \in clients
    /\ heard[u][sender] < max
    /\ LET m == Signal("CANDIDATE", sender, u, NoCallId, FALSE, heard[u][sender] + 1)
       IN  /\ Put(u, OnSignal(Cur(u), m, clock), NoUser)
           /\ heard' = [heard EXCEPT ![u][sender] = m.candidate]
    /\ UNCHANGED <<notifications, messages, clock, storeUp, calls, clients>>

Frame == UNCHANGED <<notifications, messages, clock, storeUp, calls, heard, clients>>

\* A suspended OFFER / ANSWER / acceptIncomingCall continues after its await.
NegotiationStep(u) ==
    /\ u \in clients
    /\ \E i \in 1..Len(client[u].tasks) : \E rollback \in BOOLEAN :
        LET s == Cur(u)
            t == s.tasks[i]
        IN  /\ t.op \in {"OFFER", "ANSWER", "accept"}
            /\ rollback \/ (t.at = "rd" /\ t.op # "ANSWER" /\
                            s.pcs[t.conn].signalingState = "have-local-offer"
                            /\ ~s.pcs[t.conn].closed)
            /\ Put(u, CASE t.at = "rd" -> AfterSetRemoteDescription(s, i, rollback)
                        [] t.at = "flush" -> AfterFlushedCandidate(s, i)
                        [] OTHER -> AfterCreateAnswer(s, i), NoUser)
    /\ Frame

\* A startGroupCall callback continues after createOffer/setLocalDescription.
OfferStep(u) ==
    /\ u \in clients
    /\ \E i \in 1..Len(client[u].tasks) :
        /\ client[u].tasks[i].op = "call"
        /\ Put(u, AfterCreateOffer(Cur(u), i), NoUser)
    /\ Frame

\* A store request of the HANGUP handler or of endCall returns.
RecorderStep(u) ==
    /\ u \in clients
    /\ \E i \in 1..Len(client[u].tasks) :
        LET s == Cur(u)
            t == s.tasks[i]
            recipientId == IF t.op = "HANGUP" THEN u ELSE t.peer
            senderId == IF t.op = "HANGUP" THEN t.peer ELSE u
            table == IF t.at \in {"q1", "i1"} THEN notifications ELSE messages
            found == storeUp /\ RecentMissedCall(table, recipientId, senderId, t.t0)
            row == MissedCallRow(recipientId, senderId, t.t0)
        IN  /\ t.op \in {"HANGUP", "endCall"}
            /\ t.at \in {"q1", "i1", "q2", "i2"}
            /\ notifications' = IF t.at = "i1" /\ storeUp
                                THEN Append(notifications, row) ELSE notifications
            /\ messages' = IF t.at = "i2" /\ storeUp
                           THEN Append(messages, row) ELSE messages
            /\ Put(u, CASE t.at = "q1" ->
                             Suspend(s, i, [t EXCEPT !.at = IF found THEN "q2" ELSE "i1",
                                                     !.t0 = clock])
                        [] t.at = "i1" ->
                             Suspend(s, i, [t EXCEPT !.at = "q2", !.t0 = clock])
                        [] t.at = "q2" /\ ~found ->
                             Suspend(s, i, [t EXCEPT !.at = "i2", !.t0 = clock])
                        [] OTHER -> AfterRecording(s, i, clock), NoUser)
    /\ UNCHANGED <<clock, storeUp, calls, heard, clients>>

StartGroupCall(u, lists, max) ==
    /\ u \in clients
    /\ client[u].callsStarted < max
    /\ \E recipientIds \in lists : Put(u, startGroupCall(Cur(u), recipientIds, clock), NoUser)
    /\ Frame

AcceptIncomingCall(u) ==
    /\ u \in clients
    /\ client[u].incomingCall.callerId # NoUser
    /\ Put(u, acceptIncomingCall(Cur(u)), NoUser)
    /\ Frame

RejectIncomingCall(u) ==
    /\ u \in clients
    /\ Put(u, rejectIncomingCall(Cur(u)), NoUser)
    /\ Frame

AddToCall(u, recipients) ==
    /\ u \in clients
    /\ \E recipientId \in recipients : Put(u, addToCall(Cur(u), recipientId), NoUser)
    /\ Frame

\* A suspended addToCall continues after createOffer/setLocalDescription.
AddStep(u) ==
    /\ u \in clients
    /\ \E i \in 1..Len(client[u].tasks) :
        /\ client[u].tasks[i].op = "addToCall"
        /\ Put(u, AfterAddOffer(Cur(u), i), NoUser)
    /\ Frame

EndCall(u) ==
    /\ u \in clients
    /\ client[u].isInCall
    /\ Put(u, endCall(Cur(u), clock), NoUser)
    /\ Frame

\* toggleMic / toggleCamera / toggleScreenShare up to the first await of the
\* loop over the peer connections.
Toggle(u, ops) ==
    /\ u \in clients
    /\ \E op \in ops :
        LET s == CASE op = "toggleMic" -> toggleMic(Cur(u))
                   [] op = "toggleCamera" -> toggleCamera(Cur(u))
                   [] OTHER -> toggleScreenShare(Cur(u))
            i == Len(s.tasks)
        IN  IF Len(s.tasks) = Len(client[u].tasks) THEN Put(u, s, NoUser)
            ELSE \E r \in Users \cup {NoUser} :
                    /\ IF Unvisited(s, s.tasks[i]) = {} THEN r = NoUser
                       ELSE r \in Unvisited(s, s.tasks[i])
                    /\ Put(u, TogglePeer(s, i, r), NoUser)
    /\ Frame

\* The await of one loop iteration returns and the loop goes on.
ToggleStep(u) ==
    /\ u \in clients
    /\ \E i \in 1..Len(client[u].tasks) :
        LET t == client[u].tasks[i]
            s == ToggleResume(Cur(u), i)
        IN  /\ t.op \in {"toggleMic", "toggleCamera", "toggleScreenShare"}
            /\ IF ToggleFailed(client[u], i) /\ t.op = "toggleScreenShare"
               THEN Put(u, Finish(Cur(u), i), NoUser)
               ELSE \E r \in Users \cup {NoUser} :
                    /\ IF Unvisited(s, t) = {} THEN r = NoUser
                       ELSE r \in Unvisited(s, t)
                    /\ Put(u, TogglePeer(s, i, r), NoUser)
    /\ Frame

\* The microphone track ends (device unplugged).
AudioTrackEnded(u) ==
    /\ u \in clients
    /\ "audio" \in client[u].localStream \ client[u].endedTracks
    /\ Put(u, [Cur(u) EXCEPT !.endedTracks = @ \cup {"audio"}], NoUser)
    /\ Frame

\* pc.onconnectionstatechange with connectionState 'connected': the
\* connection to r has both descriptions and its transport came up.
ConnectionStateChange(u) ==
    /\ u \in clients
    /\ \E r \in Users :
        LET s == Cur(u)
            k == s.peerConnections[r]
        IN  /\ k # 0
            /\ ~s.pcs[k].closed
            /\ s.pcs[k].hasRemoteDescription
            /\ s.pcs[k].hasLocalDescription
            /\ s.pcs[k].signalingState = "stable"
            /\ Put(u, addJoined(s, r), NoUser)
    /\ Frame

\* The subscribe callback of the signaling channel runs with a status.
SubscribeStatus(u, statuses) ==
    /\ u \in clients
    /\ \E status \in statuses :
        Put(u, IF status = "SUBSCRIBED" THEN onSubscribed(Cur(u))
               ELSE [Cur(u) EXCEPT !.isSignalingSubscribed = FALSE], NoUser)
    /\ Frame

\* The awaited channel.send of a flush returns.
FlushStep(u) ==
    /\ u \in clients
    /\ \E i \in 1..Len(client[u].tasks) :
        /\ client[u].tasks[i].op = "flush"
        /\ Put(u, AfterFlushSend(Cur(u), i), NoUser)
    /\ Frame

\* A connection that has its local description gathers its next candidate.
IceCandidate(u) ==
    /\ u \in clients
    /\ \E k \in 1..Len(client[u].pcs) :
        LET pc == client[u].pcs[k] IN
        /\ ~pc.closed
        /\ pc.hasLocalDescription
        /\ pc.gathered < MaxCand
        /\ Put(u, onicecandidate(Cur(u), k, pc.gathered + 1), NoUser)
    /\ Frame

\* The transport starts or stops failing channel.send.
TransportFault(u) ==
    /\ u \in clients
    /\ Put(u, [Cur(u) EXCEPT !.sendOk = ~@], NoUser)
    /\ Frame

\* The probe of the `calls` table, started when the provider mounts, returns.
Probe(u) ==
    /\ u \in clients
    /\ client[u].hasCallsTable = "null"
    /\ Put(u, probeCallsTable(Cur(u), StoreResult(calls.mode, storeUp, FALSE)), NoUser)
    /\ UNCHANGED <<notifications, messages, clock, storeUp, calls, heard, clients>>

\* The insert of startGroupCall or the update of endCall returns.  An insert
\* of an id the table holds already is refused.
CallStoreStep(u) ==
    /\ u \in clients
    /\ \E i \in 1..Len(client[u].tasks) :
        LET s == Cur(u)
            t == s.tasks[i]
            taken == \E j \in 1..Len(calls.rows) : calls.rows[j].id = t.callId
            result == IF t.op = "callRecord" /\ taken THEN "error"
                      ELSE StoreResult(calls.mode, storeUp, TRUE)
        IN  /\ t.at \in {"insert", "update"}
            /\ calls' = IF result # "ok" THEN calls
                         ELSE IF t.at = "insert"
                         THEN [calls EXCEPT !.rows = Append(@, CallRow(t.callId, t.invited, t.t0))]
                         ELSE [calls EXCEPT !.rows = EndedRows(@, t.callId, t.t0, t.joined)]
            /\ Put(u, IF t.at = "insert" THEN AfterCallInsert(s, i, result)
                      ELSE AfterCallUpdate(s, i, result), NoUser)
    /\ UNCHANGED <<notifications, messages, clock, storeUp, heard, clients>>

\* ========================================================== specifications
InitWith(cs) ==
    /\ clients = cs
    /\ client = [u \in Users |-> InitClient(u)]
    /\ notifications = <<>>
    /\ messages = <<>>
    /\ clock = 1
    /\ storeUp = TRUE
    /\ calls = NoCalls
    /\ channel = [s \in Users |-> [r \in Users |-> <<>>]]
    /\ heard = [r \in Users |-> [s \in Users |-> 0]]

\* Negotiation.  One client, A; B is a remote user whose signals arrive as
\* inputs; A calls B or is called by B.
Init == InitWith({"A"})

Next ==
    \/ Inject("A", {"B"}, {"OFFER", "ANSWER", "CANDIDATE"})
    \/ NegotiationStep("A")
    \/ OfferStep("A")
    \/ StartGroupCall("A", {<<"B">>}, MaxCalls)
    \/ AcceptIncomingCall("A")

Spec == Init /\ [][Next]_vars

\* endCall is not running: the user has not clicked again while it awaits.
NoEndCallRunning(u) == \A i \in 1..Len(client[u].tasks) : client[u].tasks[i].op # "endCall"

\* A missed call between two clients: A calls B, B lets it ring, A hangs up
\* once.
InitMissed == InitWith({"A", "B"})

NextMissed ==
    \/ StartGroupCall("A", {<<"B">>}, MaxCalls)
    \/ OfferStep("A")
    \/ Deliver("B")
    \/ NoEndCallRunning("A") /\ EndCall("A")
    \/ RecorderStep("A")
    \/ RecorderStep("B")
    \/ Tick

SpecMissed == InitMissed /\ [][NextMissed]_vars

\* Hanging up.  A calls B, C or both, the invitees answer or stay silent, and the
\* local user ends the call; endCall is invoked again only after it returned.
NextEnd ==
    \/ StartGroupCall("A", {<<"B">>, <<"B", "C">>, <<"C", "B", "D">>}, MaxCalls)
    \/ OfferStep("A")
    \/ Inject("A", {"B", "C"}, {"ANSWER"})
    \/ NegotiationStep("A")
    \/ NoEndCallRunning("A") /\ EndCall("A")
    \/ RecorderStep("A")

SpecEnd == Init /\ [][NextEnd]_vars

\* Repeated missed calls.  A calls B again and again and hangs up unanswered;
\* B invites A again and again and gives up; time passes.  One recording is
\* over before the next begins.
NoRecorderRunning(u) ==
    \A i \in 1..Len(client[u].tasks) : client[u].tasks[i].op \notin {"endCall", "HANGUP"}

NextRecord ==
    \/ StartGroupCall("A", {<<"B">>}, MaxRecordings)
    \/ OfferStep("A")
    \/ NoRecorderRunning("A") /\ EndCall("A")
    \/ NoRecorderRunning("A") /\ ~client["A"].isInCall
            /\ Inject("A", {"B"}, {"OFFER", "HANGUP"})
    \/ RecorderStep("A")
    \/ Tick

SpecRecord == Init /\ [][NextRecord]_vars

\* Remote hangups.  A calls B and C; they answer and hang up.
NextHangup ==
    \/ StartGroupCall("A", {<<"B", "C">>}, MaxCalls)
    \/ OfferStep("A")
    \/ Inject("A", {"B", "C"}, {"ANSWER", "HANGUP"})
    \/ NegotiationStep("A")

SpecHangup == Init /\ [][NextHangup]_vars

\* A caller who gives up.  B invites A and hangs up before A accepts, again
\* and again; the transport may deliver a signal more than once.
NextInvite ==
    \/ Inject("A", {"B"}, {"OFFER", "HANGUP"})
    \/ RecorderStep("A")
    \/ Tick

SpecInvite == Init /\ [][NextInvite]_vars

\* Track toggles before and during a call that B started and A accepted.
NextToggle ==
    \/ client["A"].pcs = <<>> /\ Inject("A", {"B"}, {"OFFER"})
    \/ client["A"].pcs = <<>> /\ AcceptIncomingCall("A")
    \/ NegotiationStep("A")
    \/ Toggle("A", {"toggleMic", "toggleCamera", "toggleScreenShare"})
    \/ ToggleStep("A")
    \/ AudioTrackEnded("A")

SpecToggle == Init /\ [][NextToggle]_vars

\* Membership.  A calls B; B answers; C, who was not invited, sends offers
\* that name A's call; connections come up.
NextJoin ==
    \/ StartGroupCall("A", {<<"B">>}, MaxCalls)
    \/ OfferStep("A")
    \/ Inject("A", {"B", "C"}, {"OFFER", "ANSWER"})
    \/ NegotiationStep("A")
    \/ ConnectionStateChange("A")

SpecJoin == Init /\ [][NextJoin]_vars

\* The outbound queue.  A logs in with the channel not yet subscribed and
\* calls B, once; the channel subscribes, closes and subscribes again while the
\* connection gathers candidates; sends may fail.  B listens: what A
\* transmitted is channel["A"]["B"], in order.
InitQueue ==
    /\ clients = {"A", "B"}
    /\ client = [u \in Users |-> [InitClient(u) EXCEPT !.isSignalingSubscribed = FALSE]]
    /\ notifications = <<>>
    /\ messages = <<>>
    /\ clock = 1
    /\ storeUp = TRUE
    /\ calls = NoCalls
    /\ channel = [s \in Users |-> [r \in Users |-> <<>>]]
    /\ heard = [r \in Users |-> [s \in Users |-> 0]]

NextQueue ==
    \/ client["A"].callsStarted = 0 /\ StartGroupCall("A", {<<"B">>}, MaxCalls)
    \/ OfferStep("A")
    \/ IceCandidate("A")
    \/ SubscribeStatus("A", {"SUBSCRIBED", "CLOSED"})
    \/ FlushStep("A")
    \/ TransportFault("A")

SpecQueue == InitQueue /\ [][NextQueue]_vars

\* Call records.  The store has a `calls` table or not, open or refusing
\* writes or everything, and its requests fail at times.  A calls B and C, B
\* answers or not, and A ends the call.
InitStore ==
    /\ clients = {"A"}
    /\ client = [u \in Users |-> InitClient(u)]
    /\ notifications = <<>>
    /\ messages = <<>>
    /\ clock = 1
    /\ storeUp = TRUE
    /\ calls \in {[mode |-> m, rows |-> <<>>] : m \in CallsModes}
    /\ channel = [s \in Users |-> [r \in Users |-> <<>>]]
    /\ heard = [r \in Users |-> [s \in Users |-> 0]]

NextStore ==
    \/ Probe("A")
    \/ StoreOutage
    \/ StartGroupCall("A", {<<"B", "C">>}, MaxCalls)
    \/ OfferStep("A")
    \/ Inject("A", {"B"}, {"ANSWER"})
    \/ NegotiationStep("A")
    \/ NoEndCallRunning("A") /\ EndCall("A")
    \/ RecorderStep("A")
    \/ CallStoreStep("A")

SpecStore == InitStore /\ [][NextStore]_vars

\* Repeated calls against such a store.  A calls B and hangs up unanswered,
\* and calls again some time after the first call is over.
Idle(u) == ~client[u].isInCall /\ client[u].tasks = <<>>

NextRestrict ==
    \/ Probe("A")
    \/ StoreOutage
    \/ Idle("A") /\ StartGroupCall("A", {<<"B">>}, MaxRecordings)
    \/ OfferStep("A")
    \/ NoEndCallRunning("A") /\ EndCall("A")
    \/ RecorderStep("A")
    \/ CallStoreStep("A")
    \/ Idle("A") /\ client["A"].callsStarted > 0 /\ Tick

SpecRestrict == InitStore /\ [][NextRestrict]_vars

\* Signals during endCall.  A calls B and C and ends the call; while endCall
\* waits for the store, answers, hangups and offers of B keep arriving.
NextEndRace ==
    \/ StartGroupCall("A", {<<"B", "C">>}, MaxCalls)
    \/ OfferStep("A")
    \/ (client["A"].isInCall \/ ~NoEndCallRunning("A"))
            /\ Inject("A", {"B"}, {"OFFER", "ANSWER", "HANGUP"})
    \/ NegotiationStep("A")
    \/ NoEndCallRunning("A") /\ EndCall("A")
    \/ RecorderStep("A")

SpecEndRace == Init /\ [][NextEndRace]_vars

\* acceptIncomingCall is not running: the user has not clicked again while
\* it awaits.
NoAcceptRunning(u) == \A i \in 1..Len(client[u].tasks) : client[u].tasks[i].op # "accept"

\* An accepted invitation.  B invites A (and repeats the offer, sends
\* candidates and stray answers); A accepts.
NextAccept ==
    \/ Inject("A", {"B"}, {"OFFER", "ANSWER", "CANDIDATE"})
    \/ NegotiationStep("A")
    \/ NoAcceptRunning("A") /\ AcceptIncomingCall("A")

SpecAccept == Init /\ [][NextAccept]_vars

\* A declined invitation.  B and C invite A and give up; A declines.
NextReject ==
    \/ Inject("A", {"B", "C"}, {"OFFER", "HANGUP"})
    \/ RecorderStep("A")
    \/ RejectIncomingCall("A")

SpecReject == Init /\ [][NextReject]_vars

\* A growing call.  A calls B, then adds C (and B again); B and C answer.
NextAdd ==
    \/ StartGroupCall("A", {<<"B">>}, MaxCalls)
    \/ OfferStep("A")
    \/ AddToCall("A", {"B", "C"})
    \/ AddStep("A")
    \/ Inject("A", {"B", "C"}, {"ANSWER"})
    \/ NegotiationStep("A")

SpecAdd == Init /\ [][NextAdd]_vars

\* A shared channel.  A calls B or is invited by B while signals that are
\* not for A pass on the channel.
NextBroadcast ==
    \/ StartGroupCall("A", {<<"B">>}, MaxCalls)
    \/ OfferStep("A")
    \/ Inject("A", {"B"}, {"OFFER", "ANSWER"})
    \/ NegotiationStep("A")
    \/ Broadcast("A")

SpecBroadcast == Init /\ [][NextBroadcast]_vars

\* A second invitation.  B invites A and sends candidates; B gives up or A
\* declines; B invites A again and A accepts.
NextReinvite ==
    \/ Inject("A", {"B"}, {"OFFER", "CANDIDATE", "HANGUP"})
    \/ RecorderStep("A")
    \/ RejectIncomingCall("A")
    \/ NoAcceptRunning("A") /\ AcceptIncomingCall("A")
    \/ NegotiationStep("A")

SpecReinvite == Init /\ [][NextReinvite]_vars

\* A call replaced.  B invites A and A accepts; A starts a call to C.
NextReplace ==
    \/ Inject("A", {"B"}, {"OFFER"})
    \/ NoAcceptRunning("A") /\ AcceptIncomingCall("A")
    \/ NegotiationStep("A")
    \/ StartGroupCall("A", {<<"C">>}, MaxCalls)
    \/ OfferStep("A")

SpecReplace == Init /\ [][NextReplace]_vars

\* A group call among three clients on one broadcast channel.  A calls B
\* and C; both accept.
InitMesh == InitWith({"A", "B", "C"})

NextMesh ==
    \/ StartGroupCall("A", {<<"B", "C">>}, MaxCalls)
    \/ OfferStep("A")
    \/ Deliver("A")
    \/ Deliver("B")
    \/ Deliver("C")
    \/ NoAcceptRunning("B") /\ AcceptIncomingCall("B")
    \/ NoAcceptRunning("C") /\ AcceptIncomingCall("C")
    \/ NegotiationStep("A")
    \/ NegotiationStep("B")
    \/ NegotiationStep("C")

SpecMesh == InitMesh /\ [][NextMesh]_vars

\* Trickled candidates.  B invites A and sends its candidates one by one;
\* A accepts at some point.
NextTrickle ==
    \/ Inject("A", {"B"}, {"OFFER"})
    \/ Candidate("A", "B", MaxBurst)
    \/ NoAcceptRunning("A") /\ AcceptIncomingCall("A")
    \/ NegotiationStep("A")

SpecTrickle == Init /\ [][NextTrickle]_vars

\* One invitation, withdrawn.  B invites A once and hangs up; the transport
\* may deliver the HANGUP more than once.
NextTwice ==
    \/ (/\ client["A"].incomingCall = NoIncomingCall
        /\ client["A"].tasks = <<>>
        /\ notifications = <<>>
        /\ messages = <<>>)
         /\ Inject("A", {"B"}, {"OFFER"})
    \/ Inject("A", {"B"}, {"HANGUP"})
    \/ RecorderStep("A")
    \/ Tick

SpecTwice == Init /\ [][NextTwice]_vars

\* A busy client.  A is in a call with B; B renegotiates and C invites A,
\* with offers that carry a callId and offers that carry none.
NextBusy ==
    \/ StartGroupCall("A", {<<"B">>}, MaxCalls)
    \/ OfferStep("A")
    \/ Inject("A", {"B"}, {"ANSWER"})
    \/ client["A"].isInCall /\ Inject("A", {"B", "C"}, {"OFFER", "OFFER0"})
    \/ NegotiationStep("A")

SpecBusy == Init /\ [][NextBusy]_vars

\* A stranger hangs up.  A calls B, or B and C, who may answer; D, whom A
\* never invited, sends a HANGUP.
NextStranger ==
    \/ StartGroupCall("A", {<<"B">>, <<"B", "C">>}, MaxCalls)
    \/ OfferStep("A")
    \/ Inject("A", {"B", "C"}, {"ANSWER"})
    \/ Inject("A", {"D"}, {"HANGUP"})
    \/ NegotiationStep("A")

SpecStranger == Init /\ [][NextStranger]_vars

\* A callee left ringing.  Clients A and C share the channel; A calls B and
\* C; B (a remote user) answers and hangs up, or A ends the call; C lets
\* the invite ring.  Every enabled step is eventually taken.
InitLeft == InitWith({"A", "C"})

NextLeft ==
    \/ StartGroupCall("A", {<<"B", "C">>}, MaxCalls)
    \/ OfferStep("A")
    \/ client["A"].isInCall /\ Inject("A", {"B"}, {"ANSWER", "HANGUP"})
    \/ NegotiationStep("A")
    \/ NoEndCallRunning("A") /\ EndCall("A")
    \/ RecorderStep("A")
    \/ Deliver("C")
    \/ RecorderStep("C")

SpecLeft == InitLeft /\ [][NextLeft]_vars /\ WF_vars(NextLeft)

\* An impatient callee.  B invites A and may hang up; A clicks accept, and
\* may click again while the first acceptIncomingCall awaits.
NextHasty ==
    \/ Inject("A", {"B"}, {"OFFER", "HANGUP"})
    \/ RecorderStep("A")
    \/ AcceptIncomingCall("A")
    \/ NegotiationStep("A")

SpecHasty == Init /\ [][NextHasty]_vars

\* An early leaver.  A calls B and C; they answer; B hangs up after it
\* joined, while C is still in the call; A ends the call.
NextLeave ==
    \/ StartGroupCall("A", {<<"B", "C">>}, MaxCalls)
    \/ OfferStep("A")
    \/ Inject("A", {"B", "C"}, {"ANSWER"})
    \/ NegotiationStep("A")
    \/ SeqToSet(client["A"].activeCallData.joinedIds) = {"B", "C"}
         /\ Inject("A", {"B"}, {"HANGUP"})
    \/ NoEndCallRunning("A") /\ EndCall("A")
    \/ RecorderStep("A")

SpecLeave == Init /\ [][NextLeave]_vars

\* A double click on "end call".  A calls B, or B and C, who do not answer;
\* A ends the call and may click again while the first endCall awaits.
NextOverlap ==
    \/ StartGroupCall("A", {<<"B">>, <<"B", "C">>}, MaxCalls)
    \/ OfferStep("A")
    \/ EndCall("A")
    \/ RecorderStep("A")

SpecOverlap == Init /\ [][NextOverlap]_vars

\* Glare.  Clients A and B share the channel; A calls B, B accepts, and
\* once the connection is negotiated each of them unmutes the microphone
\* (once), which adds a track and sends a renegotiation OFFER.  Every
\* enabled step is eventually taken.
InitGlare == InitWith({"A", "B"})

\* u's connection to r is negotiated and u has not unmuted yet.
MayUnmute(u, r) ==
    LET s == client[u]
        k == s.peerConnections[r]
    IN  /\ s.isInCall
        /\ "audio" \notin s.localStream
        /\ k # 0
        /\ s.pcs[k].hasRemoteDescription
        /\ s.pcs[k].hasLocalDescription
        /\ s.tasks = <<>>

NextGlare ==
    \/ StartGroupCall("A", {<<"B">>}, MaxCalls)
    \/ OfferStep("A")
    \/ Deliver("A")
    \/ Deliver("B")
    \/ NoAcceptRunning("B") /\ AcceptIncomingCall("B")
    \/ NegotiationStep("A")
    \/ NegotiationStep("B")
    \/ MayUnmute("A", "B") /\ Toggle("A", {"toggleMic"})
    \/ MayUnmute("B", "A") /\ Toggle("B", {"toggleMic"})
    \/ ToggleStep("A")
    \/ ToggleStep("B")

SpecGlare == InitGlare /\ [][NextGlare]_vars /\ WF_vars(NextGlare)

\* ================================================================= claims
\* The state of client A before and after a step.
Before == client["A"]
After == client'["A"]

\* The rows of a store table that record a call of senderId missed by recipientId.
PairRows(table, recipientId, senderId) ==
    {j \in 1..Len(table) : /\ table[j].recipient_id = recipientId
                           /\ table[j].sender_id = senderId}

\* A record of the pair exists that is less than the dedup window older than `now`.
Young(table, recipientId, senderId, now) ==
    \E j \in PairRows(table, recipientId, senderId) :
        now - table[j].timestamp < DedupWindow

\* Any two records of one pair lie at least the dedup window apart.
RowsApart(table) ==
    \A i, j \in 1..Len(table) :
        (/\ i < j
         /\ table[i].recipient_id = table[j].recipient_id
         /\ table[i].sender_id = table[j].sender_id)
        => table[j].timestamp - table[i].timestamp >= DedupWindow

\* The suspended functions of client state s that run the given operations.
TasksOf(s, ops) == {s.tasks[i] : i \in {j \in 1..Len(s.tasks) : s.tasks[j].op \in ops}}

\* Task i of the state before the step went on to its next await (Moved) or
\* returned (Ended) in this step.
Moved(i) == Len(After.tasks) = Len(Before.tasks) /\ After.tasks[i] # Before.tasks[i]
Ended(i) == After.tasks = RemoveAt(Before.tasks, i)

\* ---------------------------------------------------------------- C1
\* C1: a remote ICE candidate of peer X is never handed to X's connection
\* before a remote description is set on it; a candidate that arrives while
\* the connection exists without remote description is buffered.  (`early`
\* lists the candidates a connection was handed too early.)
CandidateNeverBeforeRemoteDescription ==
    \A u \in clients : \A k \in 1..Len(client[u].pcs) : client[u].pcs[k].early = <<>>

\* ---------------------------------------------------------------- C2
\* C2: the candidates received from X before X's remote description is
\* applied are each applied to X's connection exactly once after it; none is
\* lost and the buffer of X is empty afterwards.  Stated for the first
\* connection A creates, once its description is set and no handler is
\* suspended: every candidate A heard from X is in `applied` exactly once.
BufferedCandidatesAppliedOnce ==
    \A r \in Users :
        LET s == client["A"] IN
        (/\ Len(s.pcs) = 1
         /\ s.peerConnections[r] = 1
         /\ s.pcs[1].hasRemoteDescription
         /\ s.tasks = <<>>)
        => /\ s.pendingRemoteCandidates[r] = <<>>
           /\ \A c \in 1..heard["A"][r] :
                Cardinality({i \in 1..Len(s.pcs[1].applied) : s.pcs[1].applied[i] = c}) = 1

\* ---------------------------------------------------------------- C3
\* C3: for one missed call (A invites B, B never accepts, A ends the call)
\* the store never holds more than one missed-call notification nor more than
\* one missed-call message for sender A and recipient B, and holds exactly
\* one of each once endCall has returned and B has handled the HANGUP.
MissedCallReportedOnce ==
    LET n == Cardinality(PairRows(notifications, "B", "A"))
        m == Cardinality(PairRows(messages, "B", "A"))
        over == /\ client["A"].callsStarted = 1
                /\ ~client["A"].isInCall
                /\ client["A"].tasks = <<>>
                /\ client["B"].tasks = <<>>
                /\ channel["A"]["B"] = <<>>
    IN  /\ n <= 1
        /\ m <= 1
        /\ over => n = 1 /\ m = 1

\* ---------------------------------------------------------------- C4
\* C4: of sequential missed-call recordings for one (caller, callee) pair,
\* one that finds a record of the pair younger than 10 s inserts nothing,
\* and one made when 10 s or more have passed inserts a notification and a
\* message again: the records of a pair lie at least the window apart, and
\* each query of a recording decides between skipping and inserting by the
\* age of the youngest record.
SequentialRecordingsDedup ==
    /\ [](RowsApart(notifications) /\ RowsApart(messages))
    /\ [][\A t \in TasksOf(Before, {"endCall", "HANGUP"}) :
            LET next == TasksOf(After, {"endCall", "HANGUP"})
                recipientId == IF t.op = "HANGUP" THEN "A" ELSE t.peer
                senderId == IF t.op = "HANGUP" THEN t.peer ELSE "A"
                row == MissedCallRow(recipientId, senderId, t.t0)
            IN  next # {t} =>
                 /\ t.at = "q1" =>
                      /\ notifications' = notifications
                      /\ next # {}
                      /\ \A t2 \in next :
                           t2.at = IF Young(notifications, recipientId, senderId, t.t0)
                                   THEN "q2" ELSE "i1"
                 /\ t.at = "i1" =>
                      /\ notifications' = Append(notifications, row)
                      /\ next # {}
                      /\ \A t2 \in next : t2.at = "q2"
                 /\ t.at = "q2" =>
                      /\ messages' = messages
                      /\ IF Young(messages, recipientId, senderId, t.t0)
                         THEN \A t2 \in next : t2.at = "q1"
                         ELSE next # {} /\ \A t2 \in next : t2.at = "i2"
                 /\ t.at = "i2" => messages' = Append(messages, row)
         ]_vars

\* Both halves of C4 in one state: A's second call to B, made after the
\* window, was recorded again, while B's second missed invite, within the
\* window of the first, has just been skipped.
TwoRecordingsThenSkipped ==
    /\ Cardinality(PairRows(notifications, "B", "A")) = 2
    /\ Cardinality(PairRows(messages, "B", "A")) = 2
    /\ Cardinality(PairRows(notifications, "A", "B")) = 1
    /\ \E t \in TasksOf(client["A"], {"HANGUP"}) :
         /\ t.at = "q2"
         /\ \E j \in PairRows(notifications, "A", "B") : notifications[j].timestamp < t.t0

\* ---------------------------------------------------------------- C5
\* The ids endCall has recorded, is recording and has yet to record.
Attempts(t) == t.done \o <<t.peer>> \o t.todo

\* C5: endCall makes one recording attempt for each id of invitedIds that
\* is not in joinedIds, and none for an id of joinedIds: the ids its loop
\* visits are exactly invitedIds \ joinedIds of the call data it was invoked
\* with, each once, and a record it inserts names the id being visited.
EndCallAccountsNotJoined ==
    /\ [](\A t \in TasksOf(client["A"], {"endCall"}) :
            LET missed == SeqToSet(t.invited) \ SeqToSet(t.joined) IN
            /\ SeqToSet(Attempts(t)) = missed
            /\ Len(Attempts(t)) = Cardinality(missed))
    /\ [][LET old == TasksOf(Before, {"endCall"})
              new == TasksOf(After, {"endCall"})
              data == Before.activeCallData
          IN  /\ \A t2 \in new \ old :
                   IF old = {}
                   THEN /\ t2.invited = data.invitedIds
                        /\ t2.joined = data.joinedIds
                        /\ t2.done = <<>>
                        /\ t2.at = "q1"
                   ELSE \E t \in old :
                        /\ t2.invited = t.invited
                        /\ t2.joined = t.joined
                        /\ \/ t2.peer = t.peer /\ t2.done = t.done
                           \/ /\ t.todo # <<>>
                              /\ t2.peer = Head(t.todo)
                              /\ t2.done = Append(t.done, t.peer)
                              /\ t2.at = "q1"
              /\ (old # {} /\ new = {}) => \A t \in old : t.todo = <<>>
              /\ (old = {} /\ new = {} /\ data.active /\ ~After.activeCallData.active)
                   => /\ SeqToSet(data.invitedIds) \subseteq SeqToSet(data.joinedIds)
                      /\ notifications' = notifications
                      /\ messages' = messages
              /\ notifications' # notifications =>
                   \E t \in old : /\ t.at = "i1"
                                  /\ notifications' = Append(notifications,
                                         MissedCallRow(t.peer, "A", t.t0))
              /\ messages' # messages =>
                   \E t \in old : /\ t.at = "i2"
                                  /\ messages' = Append(messages,
                                         MissedCallRow(t.peer, "A", t.t0))
         ]_vars

\* The example of C5: of the invited C, B and D only B joined; endCall has
\* recorded C, is recording D and has nothing left to record.
EndCallSkipsJoined ==
    \E t \in TasksOf(client["A"], {"endCall"}) :
        /\ t.invited = <<"C", "B", "D">>
        /\ t.joined = <<"B">>
        /\ t.done = <<"C">>
        /\ t.peer = "D"
        /\ t.todo = <<>>
        /\ Cardinality(PairRows(notifications, "C", "A")) = 1
        /\ PairRows(notifications, "B", "A") = {}

EnabledTrackReachesEveryPeer ==
    [][(Before.isInCall /\ ~Before.isMicOn /\ After.isMicOn) =>
          \A r \in Users :
             LET k == After.peerConnections[r] IN
             k # 0 => "audio" \in After.pcs[k].senders
      ]_vars

\* ---------------------------------------------------------------- C10
\* C10: a HANGUP from participant X of the active call touches no connection
\* but X's: the connection of every other participant, joined or still
\* ringing, stays registered and open.
HangupLeavesOtherPeers ==
    [][LET m == After.in IN
       (/\ After # Before
        /\ m.type = "HANGUP"
        /\ Before.activeCallData.active
        /\ Includes(Before.activeCallData.invitedIds, m.senderId))
       => \A r \in Users \ {m.senderId} :
             LET k == Before.peerConnections[r] IN
             (k # 0 /\ ~Before.pcs[k].closed)
             => /\ After.peerConnections[r] = k
                /\ k <= Len(After.pcs)
                /\ ~After.pcs[k].closed
      ]_vars

\* ---------------------------------------------------------------- C11
\* C11: when a HANGUP of the last joined participant destroys the call, the
\* teardown starts the missed-call recording that endCall starts: a recording
\* for the first invited id that had not joined is on its way afterwards.
RemoteTeardownRecordsMissed ==
    [][LET m == After.in
           call == Before.activeCallData
           notJoined == Filter(call.invitedIds, SeqToSet(call.joinedIds))
       IN  (/\ After # Before
            /\ m.type = "HANGUP"
            /\ call.active
            /\ call.joinedIds = <<m.senderId>>
            /\ ~After.activeCallData.active
            /\ notJoined # <<>>)
           => \E t \in TasksOf(After, {"endCall"}) :
                 t.peer = Head(notJoined) /\ t.invited = call.invitedIds
      ]_vars

\* ---------------------------------------------------------------- C12
\* C12: while a call is active, everyone in joinedIds is in invitedIds (or is
\* the local user).
JoinedAreInvited ==
    client["A"].activeCallData.active =>
        SeqToSet(client["A"].activeCallData.joinedIds)
            \subseteq SeqToSet(client["A"].activeCallData.invitedIds) \cup {"A"}

\* ---------------------------------------------------------------- C13
\* C13: a client never holds two connections to one remote user that are
\* both created and not closed.
OneLiveConnectionPerPeer ==
    \A j, k \in 1..Len(client["A"].pcs) :
        (/\ j # k
         /\ ~client["A"].pcs[j].closed
         /\ ~client["A"].pcs[k].closed)
        => client["A"].pcs[j].remote # client["A"].pcs[k].remote

\* ------------------------------------------------------- C14, C15, C16
\* What A has transmitted, in order, and what A still holds to be
\* transmitted: the outbound queue and the entries a running flush took out
\* of it.
Transmitted == channel["A"]["B"]

Held ==
    SeqToSet(client["A"].pendingSignals)
        \cup UNION {SeqToSet(client["A"].tasks[i].queued) : i \in 1..Len(client["A"].tasks)}

\* The signals A's connection k has handed to sendSignal: its OFFER once
\* startGroupCall's callback went past the sendSignal call, and its
\* candidates 1..gathered.
Handed(k) ==
    LET pc == client["A"].pcs[k] IN
    {Signal("CANDIDATE", "A", pc.remote, NoCallId, FALSE, n) : n \in 1..pc.gathered}
        \cup (IF /\ pc.hasLocalDescription
                 /\ \A i \in 1..Len(client["A"].tasks) : client["A"].tasks[i].conn # k
              THEN {Signal("OFFER", "A", pc.remote, client["A"].activeCallId, TRUE, 0)}
              ELSE {})

\* C14: every signal handed to sendSignal has been transmitted or is still
\* held (in the queue or in a running flush); none is lost.
NoSignalLost ==
    \A k \in 1..Len(client["A"].pcs) :
        Handed(k) \subseteq SeqToSet(Transmitted) \cup Held

\* C15: signals are transmitted in the order they were handed to sendSignal:
\* the OFFER of a connection before its candidates, and the candidates in the
\* order they were gathered.
TransmittedInOrder ==
    \A i, j \in 1..Len(Transmitted) :
        (i < j /\ Transmitted[i].recipientId = Transmitted[j].recipientId)
        => /\ ~(Transmitted[i].type = "CANDIDATE" /\ Transmitted[j].type = "OFFER")
           /\ (Transmitted[i].type = "CANDIDATE" /\ Transmitted[j].type = "CANDIDATE")
                 => Transmitted[i].candidate < Transmitted[j].candidate

\* C16: no signal that was queued is transmitted twice, however the flushes
\* of repeated SUBSCRIBED events overlap (USER_ONLINE is handed to sendSignal
\* once per event, so it may repeat).
QueuedSentOnce ==
    \A i, j \in 1..Len(Transmitted) :
        (i < j /\ Transmitted[i] = Transmitted[j]) => Transmitted[i].type = "USER_ONLINE"

\* Two flushes are in progress at once, each with an entry of its own
\* already transmitted.
OverlappingFlushes ==
    \E i, j \in 1..Len(client["A"].tasks) :
        LET t == client["A"].tasks[i]
            w == client["A"].tasks[j]
        IN  /\ i < j
            /\ t.op = "flush" /\ w.op = "flush"
            /\ t.flag /\ w.flag
            /\ Includes(Transmitted, Head(t.queued))
            /\ Includes(Transmitted, Head(w.queued))
            /\ Head(t.queued).type # "USER_ONLINE"
            /\ Head(w.queued).type # "USER_ONLINE"

\* ---------------------------------------------------------------- C17
\* C17: when setting the remote description fails in acceptIncomingCall or in
\* the renegotiation OFFER handler, or creating the offer fails in
\* startGroupCall, the function gives up and the connection of that peer is
\* closed and no longer registered.
NegotiationFailureClosesPeer ==
    [][\A i \in 1..Len(Before.tasks) :
         LET t == Before.tasks[i]
             failed == \/ t.op \in {"OFFER", "accept"} /\ t.at = "rd"
                       \/ t.op = "call" /\ ~CanCreateOffer(Before.pcs[t.conn])
         IN  (failed /\ Ended(i)) =>
                /\ After.peerConnections[t.peer] # t.conn
                /\ t.conn <= Len(After.pcs) => After.pcs[t.conn].closed
      ]_vars

\* ---------------------------------------------------------------- C18
\* HANGUP to each of the ids, in their order.
Hangups(ids) ==
    [n \in 1..Len(ids) |-> Signal("HANGUP", "A", ids[n], NoCallId, FALSE, 0)]

\* C18: whatever the store answers, startGroupCall sets up the same call
\* (active, the recipients invited, nobody joined, one open registered
\* connection and one pending offer per recipient), each pending offer that
\* the connection accepts is sent as OFFER, and endCall always comes to its
\* end by sending HANGUP to every invited id, closing every registered
\* connection and leaving the call.
StoreNeverChangesCall ==
    [][/\ After.callsStarted # Before.callsStarted =>
            LET ids == After.activeCallData.invitedIds IN
            /\ After.isInCall
            /\ After.activeCallId = clock
            /\ After.activeCallData.active
            /\ After.activeCallData.joinedIds = <<>>
            /\ ids # <<>>
            /\ \A n \in 1..Len(ids) :
                 LET k == After.peerConnections[ids[n]] IN
                 /\ k # 0
                 /\ ~After.pcs[k].closed
                 /\ \E j \in 1..Len(After.tasks) :
                       /\ After.tasks[j].op = "call"
                       /\ After.tasks[j].peer = ids[n]
                       /\ After.tasks[j].conn = k
                       /\ After.tasks[j].callId = clock
       /\ \A i \in 1..Len(Before.tasks) :
            LET t == Before.tasks[i] IN
            /\ (t.op = "call" /\ Ended(i) /\ CanCreateOffer(Before.pcs[t.conn]))
                  => After.out = <<Signal("OFFER", "A", t.peer, t.callId, TRUE, 0)>>
            /\ (t.op = "endCall" /\ (Moved(i) \/ Ended(i)))
                  => Before.activeCallData.active
            /\ (t.op = "endCall" /\ Ended(i)) => ~After.activeCallData.active
       /\ (Before.activeCallData.active /\ ~After.activeCallData.active) =>
            /\ After.out = Hangups(Before.activeCallData.invitedIds)
            /\ ~After.isInCall
            /\ \A r \in Users :
                 LET k == Before.peerConnections[r] IN
                 /\ After.peerConnections[r] = 0
                 /\ (k # 0 /\ k <= Len(After.pcs)) => After.pcs[k].closed
      ]_vars

\* A call was started and ended against a store that refused the insert of
\* the call record and then failed: nothing was recorded, and the call is over.
EndedDespiteStoreFailure ==
    /\ calls.mode = "readonly"
    /\ ~storeUp
    /\ client["A"].callsRestricted
    /\ client["A"].callsStarted = 1
    /\ ~client["A"].isInCall
    /\ client["A"].tasks = <<>>
    /\ client["A"].peerConnections = [r \in Users |-> 0]
    /\ notifications = <<>>

\* ---------------------------------------------------------------- C19
\* C19: the result of the probe is kept once it is in, a 42501 once observed
\* stays observed, and from a state in which the probe found no table or a
\* 42501 has been observed no step begins an insert or update of a call
\* record.
NoCallWriteOnceRefused ==
    [][/\ Before.hasCallsTable # "null" => After.hasCallsTable = Before.hasCallsTable
       /\ Before.callsRestricted => After.callsRestricted
       /\ (Before.hasCallsTable = "false" \/ Before.callsRestricted) =>
            \A i \in 1..Len(After.tasks) :
               After.tasks[i].at \in {"insert", "update"}
               => \E j \in 1..Len(Before.tasks) : Before.tasks[j] = After.tasks[i]
      ]_vars

\* A second call is being set up, some time after the first, on a client
\* that has observed a 42501 from a store that refuses writes: no insert of a
\* call record is on its way.
CallStartedWithoutRecord ==
    /\ calls.mode = "readonly"
    /\ storeUp
    /\ client["A"].hasCallsTable = "true"
    /\ client["A"].callsRestricted
    /\ client["A"].callsStarted = 2
    /\ client["A"].isInCall
    /\ client["A"].activeCallId = clock
    /\ TasksOf(client["A"], {"call"}) # {}
    /\ TasksOf(client["A"], {"callRecord"}) = {}

EndCallDone(ids) ==
    /\ After.out = Hangups(ids)
    /\ After.peerConnections = [r \in Users |-> 0]
    /\ ~After.isInCall
    /\ After.activeCallData = NoCallData
    /\ After.activeCallId = NoCallId

\* C21: endCall remembers the ids invited when it was invoked, and the step
\* in which it completes (after its last store request, or at once when it
\* has none to make) hands one HANGUP per such id to sendSignal, in order,
\* and leaves no connection registered and no call active, whatever signals
\* were handled in between.
EndCallAlwaysTearsDown ==
    [][/\ \A j \in 1..Len(After.tasks) :
            (/\ After.tasks[j].op = "endCall"
             /\ Len(After.tasks) = Len(Before.tasks) + 1
             /\ j = Len(After.tasks))
            => After.tasks[j].invited = Before.activeCallData.invitedIds
       /\ \A i \in 1..Len(Before.tasks) :
            LET t == Before.tasks[i] IN
            /\ (t.op = "endCall" /\ Moved(i)) => After.tasks[i].invited = t.invited
            /\ (t.op = "endCall" /\ Ended(i)) => EndCallDone(t.invited)
       /\ (/\ Before.activeCallData.active
           /\ ~After.activeCallData.active
           /\ After.in = NoSignal
           /\ After.tasks = Before.tasks)
          => EndCallDone(Before.activeCallData.invitedIds)
      ]_vars

\* endCall has just completed, and while it was waiting the call had been
\* torn down by a remote HANGUP and a new invite had been staged.
EndCallDoneAfterSignals ==
    /\ client["A"].out = [n \in 1..2 |->
          Signal("HANGUP", "A", <<"B", "C">>[n], NoCallId, FALSE, 0)]
    /\ client["A"].incomingCall.callerId # NoUser
    /\ ~client["A"].isInCall
    /\ NoEndCallRunning("A")
    /\ client["A"].peerConnections = [r \in Users |-> 0]

\* ---------------------------------------------------------------- C22
\* C22: startGroupCall sets up a call whose callId differs from the callId of
\* the call that was active before it, with the recipients invited, nobody
\* joined, and a registered open connection with a pending offer of that
\* callId for each recipient.
StartGroupCallFreshCall ==
    [][After.callsStarted # Before.callsStarted =>
          LET ids == After.activeCallData.invitedIds IN
          /\ After.activeCallData.active
          /\ After.activeCallData.joinedIds = <<>>
          /\ ids # <<>>
          /\ \A n \in 1..Len(ids) :
               LET k == After.peerConnections[ids[n]] IN
               /\ k # 0
               /\ ~After.pcs[k].closed
               /\ \E j \in 1..Len(After.tasks) :
                     /\ After.tasks[j].op = "call"
                     /\ After.tasks[j].conn = k
                     /\ After.tasks[j].callId = After.activeCallId
          /\ After.activeCallId # NoCallId
          /\ After.activeCallId # Before.activeCallId
      ]_vars

\* ---------------------------------------------------------------- C23
\* The acceptIncomingCall that task t runs has returned normally: one ANSWER
\* with the invite's callId went to the caller, the offer is applied to the
\* connection it created, and the call with the caller is active.
Accepted(t) ==
    /\ After.out = <<Signal("ANSWER", "A", t.peer, t.callId, TRUE, 0)>>
    /\ After.pcs[t.conn].hasRemoteDescription
    /\ After.isInCall
    /\ After.activeCallId = t.callId
    /\ After.activeCallData =
           [active |-> TRUE, invitedIds |-> <<t.peer>>, joinedIds |-> <<t.peer>>]
    /\ After.incomingCall = NoIncomingCall

\* C23: acceptIncomingCall with no invite staged changes nothing; with an
\* invite of caller C it registers one new connection for C and, when it
\* returns, has applied the staged offer, sent exactly one ANSWER with the
\* invite's callId to C, made the call active with invitedIds = joinedIds =
\* <<C>> and that callId, and cleared the invite.
AcceptIncomingCallContract ==
    [][/\ Before.incomingCall.callerId = NoUser
            => acceptIncomingCall(Before) = Before
       /\ (/\ Len(After.tasks) = Len(Before.tasks) + 1
           /\ After.tasks[Len(After.tasks)].op = "accept")
            => LET t == After.tasks[Len(After.tasks)]
                   call == Before.incomingCall
               IN  /\ call.callerId # NoUser
                   /\ t.peer = call.callerId
                   /\ t.callId = call.callId
                   /\ After.peerConnections[t.peer] = t.conn
                   /\ After.pcs[t.conn] = NewPC(t.peer)
                   /\ \A r \in Users \ {t.peer} :
                        After.peerConnections[r] = Before.peerConnections[r]
                   /\ After.out = <<>>
       /\ \A i \in 1..Len(Before.tasks) :
            (Before.tasks[i].op = "accept" /\ Ended(i)) => Accepted(Before.tasks[i])
      ]_vars

\* A accepted B's invite after two candidates of B were buffered: B's
\* connection holds both and the call with B is active.
AcceptedWithBufferedCandidates ==
    /\ client["A"].out = <<Signal("ANSWER", "A", "B", OtherCallId, TRUE, 0)>>
    /\ client["A"].activeCallId = OtherCallId
    /\ client["A"].activeCallData.joinedIds = <<"B">>
    /\ client["A"].incomingCall = NoIncomingCall
    /\ client["A"].peerConnections["B"] # 0
    /\ client["A"].pcs[client["A"].peerConnections["B"]].applied = <<1, 2>>

\* ---------------------------------------------------------------- C24
\* C24: rejectIncomingCall with an invite staged hands exactly one HANGUP
\* for the caller to sendSignal and clears the invite; it creates no
\* connection, starts no call and no recorder, and writes no missed-call
\* record.  With no invite staged it does nothing.
RejectIncomingCallContract ==
    [][LET s == [Before EXCEPT !.in = NoSignal, !.out = <<>>]
           r == rejectIncomingCall(s)
           callerId == s.incomingCall.callerId
       IN  /\ callerId = NoUser => r = s
           /\ callerId # NoUser =>
                r = [s EXCEPT !.out = <<Signal("HANGUP", "A", callerId, NoCallId, FALSE, 0)>>,
                              !.incomingCall = NoIncomingCall]
           /\ (/\ callerId # NoUser
               /\ After.incomingCall = NoIncomingCall
               /\ After.in = NoSignal
               /\ After.tasks = Before.tasks)
                => /\ After = r
                   /\ notifications' = notifications
                   /\ messages' = messages
      ]_vars

\* A declined C's invite while the recorder of B's withdrawn invite runs.
RejectedInvite ==
    /\ client["A"].out = <<Signal("HANGUP", "A", "C", NoCallId, FALSE, 0)>>
    /\ client["A"].incomingCall = NoIncomingCall
    /\ client["A"].in = NoSignal
    /\ client["A"].pcs = <<>>
    /\ ~client["A"].isInCall
    /\ TasksOf(client["A"], {"HANGUP"}) # {}
    /\ notifications = <<>>

\* ---------------------------------------------------------------- C25
\* C25: addToCall(recipientId) changes nothing when no call is active; in an
\* active call it registers a new connection for the recipient and, when it
\* returns, has handed one OFFER with the active callId for the recipient to
\* sendSignal and appended the recipient to invitedIds, joinedIds unchanged.
AddToCallContract ==
    [][/\ ~Before.isInCall =>
            \A r \in {"B", "C"} : addToCall(Before, r) = Before
       /\ (/\ Len(After.tasks) = Len(Before.tasks) + 1
           /\ After.tasks[Len(After.tasks)].op = "addToCall")
            => LET t == After.tasks[Len(After.tasks)] IN
               /\ Before.isInCall
               /\ t.callId = Before.activeCallId
               /\ After.peerConnections[t.peer] = t.conn
               /\ After.pcs[t.conn] = [NewPC(t.peer) EXCEPT !.senders = Before.localStream]
               /\ After.out = <<>>
               /\ After.activeCallData = Before.activeCallData
       /\ \A i \in 1..Len(Before.tasks) :
            (Before.tasks[i].op = "addToCall" /\ Ended(i))
            => LET t == Before.tasks[i] IN
               /\ Before.activeCallData.active
               /\ After.out = <<Signal("OFFER", "A", t.peer, Before.activeCallId, TRUE, 0)>>
               /\ After.activeCallData =
                      [Before.activeCallData EXCEPT !.invitedIds = Append(@, t.peer)]
      ]_vars

\* C was added to A's call with B after B had joined.
AddedToCall ==
    /\ client["A"].out = <<Signal("OFFER", "A", "C", client["A"].activeCallId, TRUE, 0)>>
    /\ client["A"].activeCallData.invitedIds = <<"B", "C">>
    /\ client["A"].activeCallData.joinedIds = <<"B">>
    /\ client["A"].peerConnections["C"] # 0
    /\ client["A"].tasks = <<>>

\* ---------------------------------------------------------------- C26
\* C26: a signal the router discards (one the client sent itself, one that
\* is addressed to another user and is not USER_ONLINE, any USER_ONLINE, an
\* ANSWER of a sender that has no connection) changes nothing of the client
\* but the record of the signal last received, sends nothing and starts
\* nothing.
DiscardedSignalChangesNothing ==
    [][(After.in # NoSignal /\ Stray(Before, After.in))
          => /\ After = [Before EXCEPT !.in = After.in, !.out = <<>>]
             /\ UNCHANGED <<notifications, messages, calls, channel>>
      ]_vars

\* A, in a call with B and holding B's connection, has just discarded an
\* OFFER that C addressed to B.
DiscardedForeignOffer ==
    /\ client["A"].in = Signal("OFFER", "C", "B", OtherCallId, TRUE, 0)
    /\ client["A"].isInCall
    /\ client["A"].activeCallData.joinedIds = <<"B">>
    /\ client["A"].incomingCall = NoIncomingCall
    /\ client["A"].peerConnections["C"] = 0

\* ---------------------------------------------------------------- C27
\* C27: once a HANGUP of X is processed, and once the local user has
\* declined X's invite, no candidate of X is left in the buffer of remote
\* candidates (so that none is applied to the connection of a later call).
NoCandidateOutlivesCall ==
    [][/\ \A i \in 1..Len(Before.tasks) :
            (Before.tasks[i].op = "HANGUP" /\ Ended(i))
            => After.pendingRemoteCandidates[Before.tasks[i].peer] = <<>>
       /\ (After.in.type = "HANGUP" /\ After.tasks = Before.tasks)
            => After.pendingRemoteCandidates[After.in.senderId] = <<>>
       /\ (/\ Before.incomingCall.callerId # NoUser
           /\ After.in = NoSignal
           /\ After.out = <<Signal("HANGUP", "A", Before.incomingCall.callerId,
                                   NoCallId, FALSE, 0)>>)
            => After.pendingRemoteCandidates[Before.incomingCall.callerId] = <<>>
      ]_vars

\* ---------------------------------------------------------------- C28
\* The connections that were open before the step and that the step left
\* open and untouched.
Survivors == {k \in 1..Len(Before.pcs) : ~Before.pcs[k].closed /\ After.pcs[k] = Before.pcs[k]}

\* C28: connections exist only as part of the active call.  With no call
\* active and no acceptIncomingCall running the registry is empty; when
\* startGroupCall or acceptIncomingCall replaces an active call, the
\* registry holds connections of the new call only and no connection that
\* was open before stays open.
PeerSessionsBelongToCall ==
    [][/\ (~After.isInCall /\ TasksOf(After, {"accept"}) = {})
            => \A r \in Users : After.peerConnections[r] = 0
       /\ (Before.isInCall /\ After.callsStarted # Before.callsStarted)
            => /\ Survivors = {}
               /\ \A r \in Users : After.peerConnections[r] # 0
                    => \E n \in 1..Len(After.activeCallData.invitedIds) :
                          After.activeCallData.invitedIds[n] = r
       /\ (/\ Before.isInCall
           /\ Len(After.tasks) = Len(Before.tasks) + 1
           /\ After.tasks[Len(After.tasks)].op = "accept")
            => /\ Survivors = {}
               /\ \A r \in Users : After.peerConnections[r] # 0
                    => r = After.tasks[Len(After.tasks)].peer
      ]_vars

\* ---------------------------------------------------------------- C29
\* C29: a staged invite stays staged, with its caller, until the local user
\* accepts or declines or the caller's HANGUP is processed; an OFFER of
\* another sender does not replace or drop it.
StagedInviteKept ==
    [][LET callerId == Before.incomingCall.callerId IN
       (callerId # NoUser /\ After.incomingCall.callerId # callerId)
          => /\ After.incomingCall = NoIncomingCall
             /\ \/ \E i \in 1..Len(Before.tasks) :
                     /\ Ended(i)
                     /\ \/ Before.tasks[i].op = "accept"
                        \/ Before.tasks[i].op = "HANGUP" /\ Before.tasks[i].peer = callerId
                \/ /\ After.in = NoSignal
                   /\ After.out = <<Signal("HANGUP", "A", callerId, NoCallId, FALSE, 0)>>
      ]_vars

\* ---------------------------------------------------------------- C30
\* Every signal is delivered and every handler has returned.
Settled ==
    /\ \A u \in clients : client[u].tasks = <<>>
    /\ \A a, b \in Users : channel[a][b] = <<>>

\* C30: once B and C have both accepted A's call to B and C (A has their
\* answers, nothing is in flight), every two of A, B and C hold a
\* connection to each other, B and C included.
GroupCallIsFullMesh ==
    (/\ Settled
     /\ client["A"].activeCallData.joinedIds \in {<<"B", "C">>, <<"C", "B">>}
     /\ client["B"].isInCall
     /\ client["C"].isInCall)
    => \A u, v \in {"A", "B", "C"} :
         u # v => /\ client[u].peerConnections[v] # 0
                  /\ ~client[u].pcs[client[u].peerConnections[v]].closed

\* ---------------------------------------------------------------- C31
\* C31: the candidates of a sender are applied to the sender's connection
\* in the order of their arrival (their numbers), also when one arrives
\* while the buffered ones are being flushed.
CandidatesAppliedInArrivalOrder ==
    \A k \in 1..Len(client["A"].pcs) :
        LET applied == client["A"].pcs[k].applied IN
        \A i, j \in 1..Len(applied) : i < j => applied[i] < applied[j]

\* ---------------------------------------------------------------- C32
\* C32: for one invite of B that B withdraws, the store holds at most one
\* missed-call notification and at most one missed-call message of sender B
\* for A, also when the HANGUP is delivered twice and the second delivery is
\* handled while the first awaits the store.
DuplicateHangupRecordedOnce ==
    /\ Cardinality(PairRows(notifications, "A", "B")) <= 1
    /\ Cardinality(PairRows(messages, "A", "B")) <= 1

\* ---------------------------------------------------------------- C33
\* C33: while a call is active no inbound OFFER stages an invite, whether or
\* not the OFFER carries a callId.
NoInviteWhileInCall ==
    [][(Before.isInCall /\ After.in.type = "OFFER")
          => After.incomingCall = Before.incomingCall
      ]_vars

\* ---------------------------------------------------------------- C34
\* The sender takes no part in the call of client state s.
Outsider(s, senderId) ==
    /\ \A n \in 1..Len(s.activeCallData.invitedIds) : s.activeCallData.invitedIds[n] # senderId
    /\ \A n \in 1..Len(s.activeCallData.joinedIds) : s.activeCallData.joinedIds[n] # senderId
    /\ s.peerConnections[senderId] = 0
    /\ s.incomingCall.callerId # senderId

\* C34: a HANGUP of a user who takes no part in the active call (not
\* invited, not joined, no connection, no invite of theirs staged) leaves
\* the call and every connection as they are, also while joinedIds is empty.
StrangerHangupChangesNothing ==
    [][(/\ Before.isInCall
        /\ After.in.type = "HANGUP"
        /\ Outsider(Before, After.in.senderId))
          => After = [Before EXCEPT !.in = After.in, !.out = <<>>]
      ]_vars

\* ---------------------------------------------------------------- C35
\* C35: however the caller's call is destroyed, the invited ids that did
\* not hang up themselves are sent a HANGUP, so that a callee's staged
\* invite of that call is eventually cleared: once A's call is over, C
\* does not keep A's invite for ever.
CalleeEventuallyReleased ==
    (/\ client["A"].callsStarted > 0
     /\ ~client["A"].isInCall
     /\ NoEndCallRunning("A"))
    ~> (client["C"].incomingCall.callerId # "A")

\* ---------------------------------------------------------------- C36
\* C36: while a call is active every id of joinedIds has an open connection
\* in the registry; a HANGUP of the caller that is processed while
\* acceptIncomingCall runs does not leave the callee in a call with the
\* caller joined and no connection for the caller.
JoinedHaveConnection ==
    client["A"].activeCallData.active
    => \A n \in 1..Len(client["A"].activeCallData.joinedIds) :
         LET k == client["A"].peerConnections[client["A"].activeCallData.joinedIds[n]] IN
         /\ k # 0
         /\ ~client["A"].pcs[k].closed

\* ---------------------------------------------------------------- C37
\* The step wrote a missed-call notification or message for recipient r.
MissedCallWritten(r) ==
    \/ /\ Len(notifications') = Len(notifications) + 1
       /\ notifications'[Len(notifications')].recipient_id = r
    \/ /\ Len(messages') = Len(messages) + 1
       /\ messages'[Len(messages')].recipient_id = r

\* C37: an invitee who was in joinedIds at some point of the call gets no
\* missed-call notification or message for it, also when they hung up
\* before endCall.  (Where a HANGUP is only sent by a joined participant,
\* an invited id without a connection in the active call has joined and
\* left.)
LeaverNotMissed ==
    [][\A r \in {"B", "C"} :
          (Before.activeCallData.active /\ Before.peerConnections[r] = 0)
             => ~MissedCallWritten(r)
      ]_vars

\* ---------------------------------------------------------------- C38
\* C38: when endCall sends the HANGUPs, nobody in joinedIds has a
\* missed-call notification or message written by this endCall, also when
\* their ANSWER was processed while endCall awaited the store.
NoJoinedRecordedAsMissed ==
    [][\A i \in 1..Len(Before.tasks) :
          (Before.tasks[i].op = "endCall" /\ Ended(i))
          => \A r \in SeqToSet(Before.activeCallData.joinedIds) :
               /\ PairRows(notifications', r, "A") = {}
               /\ PairRows(messages', r, "A") = {}
      ]_vars

\* ---------------------------------------------------------------- C39
\* C39: two overlapping endCall invocations on one call insert at most one
\* missed-call notification and at most one missed-call message for each
\* invitee who did not join.
OverlappingEndCallsRecordOnce ==
    \A r \in {"B", "C"} :
        /\ Cardinality(PairRows(notifications, r, "A")) <= 1
        /\ Cardinality(PairRows(messages, r, "A")) <= 1

\* ---------------------------------------------------------------- C40
\* The signaling state of u's registered connection to r.
SignalingState(u, r) ==
    IF client[u].peerConnections[r] = 0 THEN "none"
    ELSE client[u].pcs[client[u].peerConnections[r]].signalingState

\* An OFFER of u for r is on its way.
OfferInFlight(u, r) ==
    \E n \in 1..Len(channel[u][r]) :
        channel[u][r][n].type = "OFFER" /\ channel[u][r][n].recipientId = r

\* Both ends of the negotiated connection have an offer pending and each
\* one's OFFER is on its way to the other.
Glare ==
    /\ SignalingState("A", "B") = "have-local-offer"
    /\ SignalingState("B", "A") = "have-local-offer"
    /\ OfferInFlight("A", "B")
    /\ OfferInFlight("B", "A")

====
